---- MODULE Spec2Model ----
(***************************************************************************)
(* Lis Pendens lead pipeline: party classification (lis-pendens-parser),   *)
(* the four-level lead classifier (lead-classifier) and the Slack block    *)
(* formatter (notifications/slack).                                        *)
(*                                                                         *)
(* Conventions                                                             *)
(*  - an optional JavaScript value is a sequence: << >> is undefined/null, *)
(*    <<v>> is the value v;                                                *)
(*  - a party name is a sequence of tokens [w, cap]: w is the token in     *)
(*    lower case (what the /i patterns see), cap its capitalisation        *)
(*    ("title" = matches ^[A-Z][a-z]+$, "upper", "lower");                 *)
(*  - time is counted in days instead of milliseconds.                     *)
(***************************************************************************)
EXTENDS Integers, Sequences, FiniteSets, TLC

VARIABLES now,            \* the clock read by new Date()
          calledAt,       \* the value new Date() had in the last classifyLead call
          parseResult,    \* the LisPendensParseResult last classified
          externalData,   \* the externalData argument of that call
          classification, \* << >> or <<the LeadClassification returned>>
          leads,          \* the ClassifiedLead[] handed to the formatter
          report,         \* << >> or <<the {text, blocks} returned, and whether
                          \* console.warn was called>>
          parsed,         \* << >> or <<the value parseLisPendens returned last>>
          previous,       \* the value it returned the time before
          ignoreAddresses, \* options.ignoreAddresses of the last processPdf call
          scored,         \* << >> or <<the value scoreAddressCandidate returned>>
          normalized,     \* << >> or <<the last call of a text function: its
                          \* name, its argument and the string it returned>>
          heap,           \* the arrays and objects allocated: reference -> cell
          args,           \* << >> or <<the arguments a caller built for
                          \* classifyLead / createClassifiedLead>>
          created,        \* what the calls made with those arguments returned
          browser,        \* fayette-pva: the module-level `browser`
          browsers,       \* every browser puppeteer launched: "open" or "closed"
          runs            \* each processFayette run: where it is and its locals

classifierVars == <<now, calledAt, parseResult, externalData, classification>>
slackVars == <<leads, report>>
parserVars == <<parsed, previous, ignoreAddresses, scored>>
leadVars == <<heap, args, created>>
browserVars == <<browser, browsers, runs>>
utilityVars == <<normalized, leadVars, browserVars>>
vars == <<now, calledAt, parseResult, externalData, classification, leads, report,
          parsed, previous, ignoreAddresses, scored,
          normalized, heap, args, created, browser, browsers, runs>>

(***************************************************************************)
(* Bounds of the model                                                     *)
(***************************************************************************)
StartDay == 1825
MaxTicks == 1
MaxPurchaseDay == 1
MaxBeds == 6
BigBatch == 24
MaxMatches == 2
MaxRuns == 3
MaxAtoms == 4
MaxCalls == 2           \* calls of classifyLead / createClassifiedLead on one
                        \* set of arguments
MaxRows == 1            \* rows with a PDF in the search result of one run

(***************************************************************************)
(* Sequence helpers                                                        *)
(***************************************************************************)
Some(v) == <<v>>
None == << >>
IsSome(o) == o # << >>

IsPrefix(p, s) == Len(p) <= Len(s) /\ SubSeq(s, 1, Len(p)) = p

(***************************************************************************)
(* Text.  A string is a run-length encoded sequence of runs [c, n, tag]:   *)
(* n >= 1 characters of class c, where c is                                *)
(*   "x"   a visible character (letters, digits, punctuation); tag tells   *)
(*         which piece of data or literal the characters come from,        *)
(*   "sp"  U+0020,  "nl" U+000A,  "tab" U+0009,  "cr" U+000D,              *)
(*   "ctl" a character of [\x00-\x08\x0B\x0C\x0E-\x1F\x7F],               *)
(*   "deg" one of the degree signs matched by /[\u00B0\u00BA]/.            *)
(* Neighbouring runs of a string differ in class or tag.                   *)
(***************************************************************************)
Run(c, n, tag) == [c |-> c, n |-> n, tag |-> tag]
Chars(c, n, tag) == IF n <= 0 THEN << >> ELSE <<Run(c, n, tag)>>
X(n, tag) == Chars("x", n, tag)
SP(n) == Chars("sp", n, "")
NL(n) == Chars("nl", n, "")
TAB(n) == Chars("tab", n, "")
CR(n) == Chars("cr", n, "")
CTL(n) == Chars("ctl", n, "")
DEG(n) == Chars("deg", n, "")
Empty == << >>

\* String.prototype.length
RECURSIVE StrLen(_)
StrLen(t) ==
  IF t = << >> THEN 0
  ELSE IF Len(t) = 1 THEN t[1].n
  ELSE LET m == Len(t) \div 2
       IN StrLen(SubSeq(t, 1, m)) + StrLen(SubSeq(t, m + 1, Len(t)))

\* string concatenation (+ and template literals) of two strings in
\* canonical form: the runs that meet are merged when they are alike
Cat(a, b) ==
  IF a = << >> THEN b
  ELSE IF b = << >> THEN a
  ELSE IF a[Len(a)].c = b[1].c /\ a[Len(a)].tag = b[1].tag
  THEN SubSeq(a, 1, Len(a) - 1)
       \o <<Run(b[1].c, a[Len(a)].n + b[1].n, b[1].tag)>> \o Tail(b)
  ELSE a \o b

\* the canonical form: no empty run, neighbours merged
RECURSIVE Norm(_)
Norm(t) ==
  IF t = << >> THEN << >>
  ELSE IF Len(t) = 1 THEN Chars(t[1].c, t[1].n, t[1].tag)
  ELSE LET m == Len(t) \div 2
       IN Cat(Norm(SubSeq(t, 1, m)), Norm(SubSeq(t, m + 1, Len(t))))

RECURSIVE CatAll(_)
CatAll(ts) == IF ts = << >> THEN << >> ELSE Cat(Head(ts), CatAll(Tail(ts)))

\* Array.prototype.join
RECURSIVE Join(_, _)
Join(ts, sep) ==
  IF ts = << >> THEN << >>
  ELSE IF Len(ts) = 1 THEN ts[1]
  ELSE CatAll(<<ts[1], sep, Join(Tail(ts), sep)>>)

\* String.prototype.slice(0, k)
RECURSIVE Slice(_, _)
Slice(t, k) ==
  IF t = << >> \/ k <= 0 THEN << >>
  ELSE IF Len(t) = 1 THEN <<Run(t[1].c, IF t[1].n >= k THEN k ELSE t[1].n, t[1].tag)>>
  ELSE LET m == Len(t) \div 2
           left == SubSeq(t, 1, m)
           leftLength == StrLen(left)
       IN IF leftLength >= k THEN Slice(left, k)
          ELSE left \o Slice(SubSeq(t, m + 1, Len(t)), k - leftLength)

\* the characters String.prototype.trim removes
TrimClasses == {"sp", "tab", "cr", "nl"}

RECURSIVE TrimStart(_, _)
TrimStart(t, classes) ==
  IF t # << >> /\ Head(t).c \in classes THEN TrimStart(Tail(t), classes) ELSE t

RECURSIVE TrimEnd(_, _)
TrimEnd(t, classes) ==
  IF t # << >> /\ t[Len(t)].c \in classes
  THEN TrimEnd(SubSeq(t, 1, Len(t) - 1), classes) ELSE t

Trim(t) == TrimEnd(TrimStart(t, TrimClasses), TrimClasses)

\* .replace(/[\x00-\x08\x0B\x0C\x0E-\x1F\x7F]/g, '')
RemoveControl(t) == Norm(SelectSeq(t, LAMBDA r : r.c # "ctl"))

\* .replace(/[degree signs]/g, ' ')
DegreeToSpace(t) ==
  Norm([i \in 1..Len(t) |-> IF t[i].c = "deg" THEN Run("sp", t[i].n, "") ELSE t[i]])

\* .replace(/  +/g, ' ')
CollapseSpaces(t) ==
  [i \in 1..Len(t) |-> IF t[i].c = "sp" THEN Run("sp", 1, "") ELSE t[i]]

\* .split('\n').map(line => line.trim()).join('\n'): inside a line only its
\* leading and trailing white space goes; the newlines stay
RECURSIVE TrimLines(_)
TrimLines(t) ==
  LET nls == {i \in 1..Len(t) : t[i].c = "nl"}
      mid == (Len(t) + 1) \div 2
      Dist(i) == IF i >= mid THEN i - mid ELSE mid - i
  IN IF nls = {} THEN Trim(t)
     ELSE LET k == CHOOSE i \in nls : \A j \in nls : Dist(i) <= Dist(j)
          IN CatAll(<<TrimLines(SubSeq(t, 1, k - 1)), <<t[k]>>,
                      TrimLines(SubSeq(t, k + 1, Len(t)))>>)

sanitizeSlackText(text) ==
  Trim(TrimLines(CollapseSpaces(DegreeToSpace(RemoveControl(text)))))

(***************************************************************************)
(* document/text-normalizer and parsers/address-parser.  The strings of    *)
(* these modules are sequences of atoms [k, v, cap]:                       *)
(*   k = "w"  a maximal run of letters, v its lower-case spelling and cap  *)
(*            how it is capitalised ("lower", "title", "upper"),           *)
(*   k = "d"  a maximal run of digits, v its digits,                       *)
(*   k = "s"  one white-space character: "sp", "tab", "nl" or "cr",        *)
(*   k = "p"  one punctuation character.                                   *)
(* Atoms of kind "w" and "d" that are neighbours form one run of \w.       *)
(***************************************************************************)
Atom(k, v, cap) == [k |-> k, v |-> v, cap |-> cap]
Letters(w, cap) == Atom("w", w, cap)
Digits(v) == Atom("d", v, "")
Space == Atom("s", "sp", "")
Tab == Atom("s", "tab", "")
Newline == Atom("s", "nl", "")
Return == Atom("s", "cr", "")
Comma == Atom("p", ",", "")
Dot == Atom("p", ".", "")

WhiteSpace == {"sp", "tab", "nl", "cr"}
LineBreaks == {"nl", "cr"}

\* how many atoms at the start of t are white space of the given characters
LeadingRun(t, chars) ==
  LET others == {i \in 1..Len(t) : ~(t[i].k = "s" /\ t[i].v \in chars)}
  IN IF others = {} THEN Len(t)
     ELSE (CHOOSE i \in others : \A j \in others : i <= j) - 1

TrailingRun(t, chars) ==
  LET others == {i \in 1..Len(t) : ~(t[i].k = "s" /\ t[i].v \in chars)}
  IN IF others = {} THEN Len(t)
     ELSE Len(t) - (CHOOSE i \in others : \A j \in others : i >= j)

\* the rest of t behind its first n atoms
Drop(t, n) == SubSeq(t, n + 1, Len(t))

\* String.prototype.trim on atoms
TrimWhiteSpace(t) ==
  IF LeadingRun(t, WhiteSpace) = Len(t) THEN << >>
  ELSE SubSeq(t, LeadingRun(t, WhiteSpace) + 1, Len(t) - TrailingRun(t, WhiteSpace))

\* .replace(/[\r\n]+/g, ' ')
RECURSIVE ReplaceLineBreaks(_)
ReplaceLineBreaks(t) ==
  IF t = << >> THEN << >>
  ELSE IF LeadingRun(t, LineBreaks) > 0
  THEN <<Space>> \o ReplaceLineBreaks(Drop(t, LeadingRun(t, LineBreaks)))
  ELSE <<t[1]>> \o ReplaceLineBreaks(Tail(t))

\* mutation: only runs of U+0020 are collapsed
RECURSIVE CollapseWhiteSpace_SpacesOnly(_)
CollapseWhiteSpace_SpacesOnly(t) ==
  IF t = << >> THEN << >>
  ELSE IF LeadingRun(t, {"sp"}) >= 2
  THEN <<Space>> \o CollapseWhiteSpace_SpacesOnly(Drop(t, LeadingRun(t, {"sp"})))
  ELSE <<t[1]>> \o CollapseWhiteSpace_SpacesOnly(Tail(t))

\* .replace(/\s{2,}/g, ' '): a single white-space character stays as it is
RECURSIVE CollapseWhiteSpace(_)
CollapseWhiteSpace(t) ==
  IF t = << >> THEN << >>
  ELSE IF LeadingRun(t, WhiteSpace) >= 2
  THEN <<Space>> \o CollapseWhiteSpace(Drop(t, LeadingRun(t, WhiteSpace)))
  ELSE <<t[1]>> \o CollapseWhiteSpace(Tail(t))

\* .replace(/\s*,\s*/g, ', ')
RECURSIVE SpaceCommas(_)
SpaceCommas(t) ==
  LET n == LeadingRun(t, WhiteSpace)
  IN IF t = << >> THEN << >>
     ELSE IF n < Len(t) /\ t[n + 1] = Comma
     THEN <<Comma, Space>>
          \o SpaceCommas(Drop(Drop(t, n + 1), LeadingRun(Drop(t, n + 1), WhiteSpace)))
     ELSE IF n > 0 THEN SubSeq(t, 1, n) \o SpaceCommas(Drop(t, n))
     ELSE <<t[1]>> \o SpaceCommas(Tail(t))

normalizeWhitespace(text) ==
  TrimWhiteSpace(CollapseWhiteSpace(ReplaceLineBreaks(text)))

cleanForAddressExtraction(text) ==
  TrimWhiteSpace(SpaceCommas(CollapseWhiteSpace(text)))

\* .replace(/\r\n/g, '\n').replace(/\r/g, '\n')
RECURSIVE CanonicalLineBreaks(_)
CanonicalLineBreaks(t) ==
  IF t = << >> THEN << >>
  ELSE IF t[1] = Return /\ Len(t) >= 2 /\ t[2] = Newline
  THEN <<Newline>> \o CanonicalLineBreaks(Drop(t, 2))
  ELSE IF t[1] = Return THEN <<Newline>> \o CanonicalLineBreaks(Tail(t))
  ELSE <<t[1]>> \o CanonicalLineBreaks(Tail(t))

\* how many line feeds the first n atoms of t hold
LineFeeds(t, n) == Cardinality({i \in 1..n : t[i] = Newline})

\* .replace(/\s*\n\s*\n\s*/g, '\n\n'): \s matches the line feed too, so a
\* match is a whole run of white space that holds two line feeds or more
RECURSIVE ParagraphBreaks(_)
ParagraphBreaks(t) ==
  LET n == LeadingRun(t, WhiteSpace)
  IN IF t = << >> THEN << >>
     ELSE IF LineFeeds(t, n) >= 2
     THEN <<Newline, Newline>> \o ParagraphBreaks(Drop(t, n))
     ELSE IF n > 0 THEN SubSeq(t, 1, n) \o ParagraphBreaks(Drop(t, n))
     ELSE <<t[1]>> \o ParagraphBreaks(Tail(t))

\* .replace(/([a-z])\s*\n\s*([a-z])/gi, '$1 $2'): with the i flag [a-z] is any
\* letter, and \s* takes line feeds as well, so a match is a letter, a run of
\* white space that holds a line feed, and a letter.  The search goes on
\* behind $2: letterBefore tells whether the character in front of t is a
\* letter no match has used up.
RECURSIVE JoinBrokenLines(_, _)
JoinBrokenLines(t, letterBefore) ==
  LET n == LeadingRun(t, WhiteSpace)
  IN IF t = << >> THEN << >>
     ELSE IF letterBefore /\ LineFeeds(t, n) >= 1 /\ n < Len(t) /\ t[n + 1].k = "w"
     THEN <<Space, t[n + 1]>> \o JoinBrokenLines(Drop(t, n + 1), Len(t[n + 1].v) >= 2)
     ELSE IF n > 0 THEN SubSeq(t, 1, n) \o JoinBrokenLines(Drop(t, n), FALSE)
     ELSE <<t[1]>> \o JoinBrokenLines(Tail(t), t[1].k = "w")

normalizeForLegalParsing(text) ==
  TrimWhiteSpace(JoinBrokenLines(ParagraphBreaks(CanonicalLineBreaks(text)), FALSE))

\* String.prototype.toLowerCase
toLowerCase(t) ==
  [i \in 1..Len(t) |-> IF t[i].k = "w" THEN Letters(t[i].v, "lower") ELSE t[i]]

(***************************************************************************)
(* parsers/address-parser: the scoring regular expressions                 *)
(***************************************************************************)
IsWordChar(a) == a.k \in {"w", "d"}

\* \b in front of atom i, \b behind atom i
LeftEdge(t, i) == i = 1 \/ ~IsWordChar(t[i - 1])
RightEdge(t, i) == i = Len(t) \/ ~IsWordChar(t[i + 1])

\* /\bword\b/i for one of the words
HasWord(t, words) ==
  \E i \in 1..Len(t) :
     t[i].k = "w" /\ t[i].v \in words /\ LeftEdge(t, i) /\ RightEdge(t, i)

\* /\bfirst second\b/i: the words of the phrase with one U+0020 between them
HasPhrase(t, phrase) ==
  \E i \in 1..(Len(t) - 2 * (Len(phrase) - 1)) :
     /\ LeftEdge(t, i)
     /\ RightEdge(t, i + 2 * (Len(phrase) - 1))
     /\ \A j \in 1..Len(phrase) :
          /\ t[i + 2 * (j - 1)].k = "w"
          /\ t[i + 2 * (j - 1)].v = phrase[j]
          /\ j < Len(phrase) => t[i + 2 * j - 1] = Space

STREET_TYPE_REGEX ==
  {"st", "street", "rd", "road", "ave", "avenue", "blvd", "boulevard", "ln", "lane",
   "dr", "drive", "ct", "court", "way", "terrace", "pl", "place", "circle", "cir",
   "parkway", "pkwy", "highway", "hwy"}
CITY_REGEX == {"lexington"}
STATE_REGEX == {"ky", "kentucky"}
ZIP_DIGITS == 5
MAX_NUMBER_DIGITS == 6

NON_ADDRESS_PATTERNS ==
  { <<"south", "of">>, <<"north", "of">>, <<"east", "of">>, <<"west", "of">>,
    <<"commonwealth">>, <<"circuit", "court">>, <<"case">>, <<"filed">>,
    <<"plaintiff">>, <<"defendant">> }

\* /\b\d{5}(?:-\d{4})?\b/
HasZip(t) ==
  \E i \in 1..Len(t) :
     t[i].k = "d" /\ Len(t[i].v) = ZIP_DIGITS /\ LeftEdge(t, i) /\ RightEdge(t, i)

\* LEADING_NUMBER_REGEX = /^\s*\d{1,6}(\s|[A-Za-z])/
HasLeadingNumber(t) ==
  LET i == LeadingRun(t, WhiteSpace) + 1
  IN /\ i < Len(t)
     /\ t[i].k = "d" /\ Len(t[i].v) <= MAX_NUMBER_DIGITS
     /\ t[i + 1].k \in {"s", "w"}

cleanAddress(address) == cleanForAddressExtraction(address)

LEADING_NUMBER_POINTS == 40
STREET_TYPE_POINTS == 30
CITY_POINTS == 10
STATE_POINTS == 10
ZIP_POINTS == 10
HIGH_SCORE == 80
MEDIUM_SCORE == 50
LIKELY_SCORE == 50

REJECTED_REASON == "matched_non_address_phrase"

\* mutation: a leading street number saves the candidate from rejection
isHardRejected_UnlessNumbered(cleaned) ==
  /\ \E p \in NON_ADDRESS_PATTERNS : HasPhrase(cleaned, p)
  /\ ~HasLeadingNumber(cleaned)

\* NON_ADDRESS_PATTERNS.some(r => r.test(cleaned))
isHardRejected(cleaned) == \E p \in NON_ADDRESS_PATTERNS : HasPhrase(cleaned, p)

\* mutation: the ZIP code counts only when the state is there too
addressScore_ZipNeedsState(cleaned) ==
  (IF HasLeadingNumber(cleaned) THEN LEADING_NUMBER_POINTS ELSE 0)
  + (IF HasWord(cleaned, STREET_TYPE_REGEX) THEN STREET_TYPE_POINTS ELSE 0)
  + (IF HasWord(cleaned, CITY_REGEX) THEN CITY_POINTS ELSE 0)
  + (IF HasWord(cleaned, STATE_REGEX) THEN STATE_POINTS ELSE 0)
  + (IF HasZip(cleaned) /\ HasWord(cleaned, STATE_REGEX) THEN ZIP_POINTS ELSE 0)

\* the score accumulated by scoreAddressCandidate
addressScore(cleaned) ==
  (IF HasLeadingNumber(cleaned) THEN LEADING_NUMBER_POINTS ELSE 0)
  + (IF HasWord(cleaned, STREET_TYPE_REGEX) THEN STREET_TYPE_POINTS ELSE 0)
  + (IF HasWord(cleaned, CITY_REGEX) THEN CITY_POINTS ELSE 0)
  + (IF HasWord(cleaned, STATE_REGEX) THEN STATE_POINTS ELSE 0)
  + (IF HasZip(cleaned) THEN ZIP_POINTS ELSE 0)

addressReasons(cleaned) ==
  (IF HasLeadingNumber(cleaned) THEN << >> ELSE <<"no_leading_street_number">>)
  \o (IF HasWord(cleaned, STREET_TYPE_REGEX) THEN << >> ELSE <<"no_street_type">>)

\* mutation: a score of exactly 80 is only medium
qualityOf_HighAbove(score) ==
  IF score > HIGH_SCORE THEN "high"
  ELSE IF score >= MEDIUM_SCORE THEN "medium"
  ELSE "low"

qualityOf(score) ==
  IF score >= HIGH_SCORE THEN "high"
  ELSE IF score >= MEDIUM_SCORE THEN "medium"
  ELSE "low"

ParsedAddress(raw, cleaned, score, quality, isLikelyAddress, reasons) ==
  [raw |-> raw, cleaned |-> cleaned, score |-> score, quality |-> quality,
   isLikelyAddress |-> isLikelyAddress, reasons |-> reasons]

Scored(address, cleaned, score) ==
  ParsedAddress(address, cleaned, score, qualityOf(score), score >= LIKELY_SCORE,
                addressReasons(cleaned))

scoreAddressCandidate(address) ==
  LET cleaned == cleanAddress(address)
  IN IF isHardRejected(cleaned)
     THEN ParsedAddress(address, cleaned, 0, "low", FALSE, <<REJECTED_REASON>>)
     ELSE Scored(address, cleaned, addressScore(cleaned))

\* new Set<string>() filled in order: the first occurrence of each string stays
RECURSIVE Distinct(_)
Distinct(strings) ==
  IF strings = << >> THEN << >>
  ELSE <<Head(strings)>>
       \o Distinct(SelectSeq(Tail(strings), LAMBDA x : x # Head(strings)))

cleanedOf(strings) == [i \in 1..Len(strings) |-> cleanAddress(strings[i])]

\* matches: what normalizedText.match(pattern) yields for the ADDRESS_PATTERNS,
\* in the order the loop adds them
extractAddressesFromText(matches) ==
  LET foundAddresses == Distinct(cleanedOf(matches))
  IN [i \in 1..Len(foundAddresses) |-> scoreAddressCandidate(foundAddresses[i])]

\* the string compared by filterIgnoredAddresses
ignoreKey(text) == toLowerCase(normalizeWhitespace(text))

ignoreKeys(list) ==
  {ignoreKey(cleanAddress(list[i])) : i \in 1..Len(list)}

\* mutation: the comparison keeps the case of the letters
filterIgnoredAddresses_CaseSensitive(addresses, ignoreList) ==
  IF ~IsSome(ignoreList) \/ ignoreList[1] = << >> THEN addresses
  ELSE SelectSeq(addresses,
         LAMBDA addr : normalizeWhitespace(addr.cleaned) \notin
                         {normalizeWhitespace(cleanAddress(ignoreList[1][i])) :
                            i \in 1..Len(ignoreList[1])})

filterIgnoredAddresses(addresses, ignoreList) ==
  IF ~IsSome(ignoreList) \/ ignoreList[1] = << >> THEN addresses
  ELSE SelectSeq(addresses,
         LAMBDA addr : ignoreKey(addr.cleaned) \notin ignoreKeys(ignoreList[1]))

\* mutation: a later member with the same score replaces the best so far
RECURSIVE reduceBest_LastWins(_, _)
reduceBest_LastWins(best, rest) ==
  IF rest = << >> THEN best
  ELSE reduceBest_LastWins(IF Head(rest).score >= best.score THEN Head(rest) ELSE best,
                           Tail(rest))

\* addresses.reduce((best, current) => current.score > best.score ? current : best)
RECURSIVE reduceBest(_, _)
reduceBest(best, rest) ==
  IF rest = << >> THEN best
  ELSE reduceBest(IF Head(rest).score > best.score THEN Head(rest) ELSE best,
                  Tail(rest))

getBestAddress(addresses) ==
  IF addresses = << >> THEN None
  ELSE Some(reduceBest(Head(addresses), Tail(addresses)))

\* [...addresses].sort((a, b) => b.score - a.score): stable, highest score first
RECURSIVE sortByScore(_)
sortByScore(addresses) ==
  IF addresses = << >> THEN << >>
  ELSE SelectSeq(sortByScore(Tail(addresses)),
                 LAMBDA a : a.score > Head(addresses).score)
       \o <<Head(addresses)>>
       \o SelectSeq(sortByScore(Tail(addresses)),
                    LAMBDA a : a.score <= Head(addresses).score)

(***************************************************************************)
(* lis-pendens-parser: pattern tables.  A pattern is a sequence of         *)
(* alternatives sets, one per consecutive token (\s+ between words); it    *)
(* matches a name when some window of consecutive tokens fits.             *)
(***************************************************************************)
Matches(pattern, name) ==
  \E i \in 1..(Len(name) - Len(pattern) + 1) :
     \A j \in 1..Len(pattern) : name[i + j - 1].w \in pattern[j]

GOOD_PLAINTIFF_PATTERNS ==
  { <<{"bank"}>>, <<{"na", "n.a", "n.a."}>>,
    <<{"federal"}, {"credit"}, {"union"}>>, <<{"credit"}, {"union"}>>,
    <<{"mortgage"}>>, <<{"lending"}>>, <<{"loan"}>>, <<{"financial"}>>,
    <<{"servicing"}>>, <<{"trustee"}>>, <<{"wells"}, {"fargo"}>>,
    <<{"chase"}>>, <<{"citibank"}>>, <<{"bank"}, {"of"}, {"america"}>>,
    <<{"pnc"}>>, <<{"us"}, {"bank"}>>, <<{"fifth"}, {"third"}>>,
    <<{"fannie"}, {"mae"}>>, <<{"freddie"}, {"mac"}>> }

BAD_PLAINTIFF_PATTERNS ==
  { <<{"hoa"}>>, <<{"homeowner", "homeowners"}, {"association"}>>,
    <<{"property"}, {"owner", "owners"}, {"association"}>>,
    <<{"county"}>>, <<{"city"}, {"of"}>>, <<{"commonwealth"}>>,
    <<{"state"}, {"of"}>>, <<{"demo", "demolition"}>>,
    <<{"service"}, {"llc"}>>, <<{"construction"}>>,
    <<{"contract", "contractor", "contracting"}>>, <<{"plumbing"}>>,
    <<{"electric", "electrical"}>>, <<{"roofing"}>>,
    <<{"landscape", "landscaping"}>> }

PLAINTIFF_TYPE_PATTERNS ==
  << [type |-> "bank",
      patterns |-> { <<{"bank"}>>, <<{"na", "n.a", "n.a."}>>,
                     <<{"wells"}, {"fargo"}>>, <<{"chase"}>>,
                     <<{"citibank"}>>, <<{"pnc"}>> }],
     [type |-> "credit_union",
      patterns |-> { <<{"credit"}, {"union"}>>,
                     <<{"federal"}, {"credit"}, {"union"}>>, <<{"fcu"}>> }],
     [type |-> "mortgage_servicer",
      patterns |-> { <<{"mortgage"}>>, <<{"servicing"}>>, <<{"loan"}>> }],
     [type |-> "hoa",
      patterns |-> { <<{"hoa"}>>,
                     <<{"homeowner", "homeowners"}, {"association"}>>,
                     <<{"property"}, {"owner", "owners"}, {"association"}>> }],
     [type |-> "government",
      patterns |-> { <<{"county"}>>, <<{"city"}, {"of"}>>,
                     <<{"commonwealth"}>>, <<{"state"}, {"of"}>> }],
     [type |-> "llc",
      patterns |-> { <<{"llc"}>>, <<{"l.l.c", "l.l.c."}>> }] >>

BAD_DEFENDANT_PATTERNS ==
  { <<{"llc"}>>, <<{"l.l.c", "l.l.c."}>>, <<{"inc", "inc."}>>,
    <<{"incorporated"}>>, <<{"corp", "corp."}>>, <<{"corporation"}>>,
    <<{"company"}>>, <<{"co."}>>, <<{"limited"}, {"partnership"}>>,
    <<{"lp"}>>, <<{"ltd", "ltd."}>> }

DEFENDANT_TYPE_PATTERNS ==
  << [type |-> "trust",
      patterns |-> { <<{"trust"}>>, <<{"trustee"}>>, <<{"as"}, {"trustee"}>> }],
     [type |-> "couple",
      patterns |-> { <<{"and"}>>, <<{"&"}>> }],
     [type |-> "llc",
      patterns |-> { <<{"llc"}>>, <<{"l.l.c", "l.l.c."}>>, <<{"inc", "inc."}>>,
                     <<{"corp", "corp."}>> }] >>

SomeMatch(patterns, name) == \E p \in patterns : Matches(p, name)

\* for (const {type, patterns} of TABLE) if (patterns.some(...)) { type = ...; break }
RECURSIVE FirstType(_, _)
FirstType(table, name) ==
  IF table = << >> THEN "unknown"
  ELSE IF SomeMatch(Head(table).patterns, name) THEN Head(table).type
  ELSE FirstType(Tail(table), name)

\* /^[A-Z][a-z]+\s+[A-Z][a-z]+/ or /^[A-Z][a-z]+,\s*[A-Z][a-z]+/
LooksLikePerson(name) ==
  Len(name) >= 2 /\ name[1].cap = "title" /\ name[2].cap = "title"

MULTI_PLAINTIFF_CONCERN == "Multiple plaintiffs - potential second mortgage"

\* vsParts: the text before "vs"/"versus" split on "and" / "&"
classifyPlaintiff(name, vsParts) ==
  LET IsLender(p) == SomeMatch(GOOD_PLAINTIFF_PATTERNS, p)
      bankCount == Cardinality({i \in 1..Len(vsParts) : IsLender(vsParts[i])})
      concerns == IF Len(vsParts) > 1 /\ bankCount > 1
                  THEN <<MULTI_PLAINTIFF_CONCERN>> ELSE << >>
      tableType == FirstType(PLAINTIFF_TYPE_PATTERNS, name)
      type == IF tableType = "unknown"
                 /\ ~SomeMatch(BAD_PLAINTIFF_PATTERNS, name)
                 /\ LooksLikePerson(name)
              THEN "individual" ELSE tableType
      isGood == SomeMatch(GOOD_PLAINTIFF_PATTERNS, name)
      isBadPlaintiff == SomeMatch(BAD_PLAINTIFF_PATTERNS, name)
  IN [name |-> name, type |-> type,
      isGoodLead |-> isGood /\ ~isBadPlaintiff,
      concerns |-> concerns]

\* mutation: a name outside the type table is an individual even when a
\* business pattern matches it
classifyDefendant_IndividualByDefault(name) ==
  [name |-> name,
   type |-> IF FirstType(DEFENDANT_TYPE_PATTERNS, name) = "unknown" THEN "individual"
            ELSE FirstType(DEFENDANT_TYPE_PATTERNS, name),
   isGoodLead |-> ~SomeMatch(BAD_DEFENDANT_PATTERNS, name)]

classifyDefendant(name) ==
  LET tableType == FirstType(DEFENDANT_TYPE_PATTERNS, name)
      isBadDefendant == SomeMatch(BAD_DEFENDANT_PATTERNS, name)
      type == IF tableType = "unknown" /\ ~isBadDefendant
              THEN "individual" ELSE tableType
  IN [name |-> name, type |-> type, isGoodLead |-> ~isBadDefendant]

\* mutation: a name with a lender word is good whatever else it holds
isGoodPlaintiff_LenderWordWins(name) == SomeMatch(GOOD_PLAINTIFF_PATTERNS, name)

isGoodPlaintiff(name) ==
  SomeMatch(GOOD_PLAINTIFF_PATTERNS, name) /\ ~SomeMatch(BAD_PLAINTIFF_PATTERNS, name)

isGoodDefendant(name) == ~SomeMatch(BAD_DEFENDANT_PATTERNS, name)

\* the mailing address of parseLisPendens: the best address of the line the
\* defendant's mailing patterns found, else the runner-up of allAddresses
mailingAddressOf(mailingMatches, allAddresses) ==
  LET mailingAddresses == IF IsSome(mailingMatches)
                          THEN extractAddressesFromText(mailingMatches[1]) ELSE << >>
      sortedAddresses == sortByScore(allAddresses)
  IN IF mailingAddresses # << >> THEN getBestAddress(mailingAddresses)
     ELSE IF Len(allAddresses) > 1
             /\ sortedAddresses[1].cleaned # sortedAddresses[2].cleaned
     THEN Some(sortedAddresses[2])
     ELSE None

\* text: what the regular expressions of the parser find in the document,
\*   plaintiffName, defendantName  the names extracted,
\*   vsParts         the text before "vs"/"versus" split on "and" / "&",
\*   matches         the matches of the ADDRESS_PATTERNS,
\*   mailingMatches  << >> or <<those matches in the defendant's mailing line>>
parseLisPendens(text) ==
  LET allAddresses == extractAddressesFromText(text.matches)
  IN [plaintiff |-> classifyPlaintiff(text.plaintiffName, text.vsParts),
      defendant |-> classifyDefendant(text.defendantName),
      propertyAddress |-> getBestAddress(allAddresses),
      mailingAddress |-> mailingAddressOf(text.mailingMatches, allAddresses),
      allAddresses |-> allAddresses,
      rawText |-> text]

(***************************************************************************)
(* lead-classifier: the four levels                                        *)
(***************************************************************************)
DAYS_PER_YEAR == 365
EQUITY_YEARS == 5
MIN_GOOD_BEDS == 3
MAX_GOOD_BEDS == 5

SKIPPED_L1 == "Skipped - Level 1 failed"
SKIPPED_L2 == "Skipped - Level 2 failed"
EQUITY_CONCERN == "Limited equity position"
QUALITY_CONCERN == "Property quality concerns"

\* mutation: the type table is consulted before isGoodLead
level1Score_TypeFirst(plaintiff) ==
  IF plaintiff.type \in {"hoa", "government", "llc"} THEN "bad"
  ELSE IF plaintiff.isGoodLead THEN "good"
  ELSE "unknown"

level1Score(plaintiff) ==
  IF plaintiff.isGoodLead THEN "good"
  ELSE CASE plaintiff.type = "hoa" -> "bad"
         [] plaintiff.type = "government" -> "bad"
         [] plaintiff.type = "llc" -> "bad"
         [] plaintiff.type = "unknown" -> "unknown"
         [] OTHER -> "unknown"

level1Note(plaintiff) ==
  IF plaintiff.isGoodLead THEN plaintiff.type \o " plaintiff (likely lender)"
  ELSE CASE plaintiff.type = "hoa" -> "HOA plaintiff - not a foreclosure"
         [] plaintiff.type = "government" ->
              "Government plaintiff - likely tax or code enforcement"
         [] plaintiff.type = "llc" -> "LLC plaintiff - likely service/contractor lien"
         [] plaintiff.type = "unknown" -> "Unable to determine plaintiff type"
         [] OTHER -> "Plaintiff type: " \o plaintiff.type

classifyLevel1(plaintiff) ==
  [score |-> level1Score(plaintiff), plaintiff |-> plaintiff,
   note |-> level1Note(plaintiff)]

\* mutation: a trust is taken for a good owner whatever isGoodLead says
level2Score_TrustIsGood(defendant) ==
  IF defendant.isGoodLead \/ defendant.type = "trust" THEN "good" ELSE "bad"

level2Score(defendant) == IF defendant.isGoodLead THEN "good" ELSE "bad"

classifyLevel2(defendant) ==
  [score |-> level2Score(defendant), defendant |-> defendant,
   note |-> IF defendant.isGoodLead
            THEN CASE defendant.type = "individual" -> "Individual owner"
                   [] defendant.type = "couple" -> "Couple/family owners"
                   [] defendant.type = "trust" ->
                        "Trust ownership (may need extra review)"
                   [] OTHER -> "Owner appears to be an individual"
            ELSE IF defendant.type = "llc"
                 THEN "LLC/Business owner - not a personal residence"
                 ELSE "Business entity owner"]

\* A Date is [valid, t]: t is getTime() in days, valid = FALSE is Invalid Date
\* (getTime() = NaN, and every comparison with NaN is false).
\* yearsOwned = ownedDays / 365 is kept as the pair [num, den].
\* mutation: exactly five years is not enough
meetsEquityThreshold_Strict(d, nowT) ==
  d.valid /\ nowT - d.t > EQUITY_YEARS * DAYS_PER_YEAR

\* yearsOwned >= 5, with yearsOwned = (now - purchaseDate) / (one year of 365 days)
meetsEquityThreshold(d, nowT) ==
  d.valid /\ nowT - d.t >= EQUITY_YEARS * DAYS_PER_YEAR

classifyLevel3(purchaseDate, nowT) ==
  IF ~IsSome(purchaseDate)
  THEN [score |-> "needs_lookup", note |-> "Purchase date requires PVA lookup"]
  ELSE LET d == purchaseDate[1]
           ownedDays == nowT - d.t
           floorYears == IF d.valid THEN ToString(ownedDays \div DAYS_PER_YEAR)
                         ELSE "NaN"
           yearsOwned == IF d.valid THEN [num |-> ownedDays, den |-> DAYS_PER_YEAR]
                         ELSE [nan |-> TRUE]
       IN IF meetsEquityThreshold(d, nowT)
          THEN [score |-> "good",
                note |-> floorYears \o " years of ownership - good equity potential",
                purchaseDate |-> d, yearsOwned |-> yearsOwned]
          ELSE [score |-> "bad",
                note |-> "Only " \o floorYears \o " years of ownership - limited equity",
                purchaseDate |-> d, yearsOwned |-> yearsOwned]

goodGrades == {"A+", "A", "A-", "B+", "B", "B-"}
badGrades == {"C+", "C", "C-", "D+", "D", "D-", "F"}

\* String.prototype.toUpperCase on the grade strings of the model
toUpperCase(s) ==
  CASE s = "a" -> "A" [] s = "a-" -> "A-" [] s = "b-" -> "B-"
    [] s = "c+" -> "C+" [] s = "d" -> "D" [] s = "f" -> "F"
    [] s = "n/a" -> "N/A"
    [] OTHER -> s

\* JavaScript truthiness of an optional string / optional number
TruthyStr(o) == IsSome(o) /\ o[1] # ""
TruthyNum(o) == IsSome(o) /\ o[1] # 0

JoinNotes(notes) ==
  IF notes = << >> THEN ""
  ELSE IF Len(notes) = 1 THEN notes[1]
  ELSE notes[1] \o ", " \o notes[2]

\* mutation: a good bed count outweighs a bad neighbourhood
applyBedCount_Override(score, bedsGood) ==
  IF bedsGood THEN "good" ELSE score

\* if (bedCount >= 3 && bedCount <= 5) { if (score !== 'bad') score = 'good'; }
applyBedCount(score, bedsGood) ==
  IF bedsGood /\ score # "bad" THEN "good" ELSE score

classifyLevel4(neighborhoodGrade, bedCount) ==
  IF ~TruthyStr(neighborhoodGrade) /\ ~TruthyNum(bedCount)
  THEN [score |-> "needs_lookup",
        note |-> "Property details require Zillow/PVA lookup"]
  ELSE
    LET grade == IF TruthyStr(neighborhoodGrade)
                 THEN toUpperCase(neighborhoodGrade[1]) ELSE ""
        score1 == IF TruthyStr(neighborhoodGrade) /\ grade \in goodGrades THEN "good"
                  ELSE IF TruthyStr(neighborhoodGrade) /\ grade \in badGrades THEN "bad"
                  ELSE "unknown"
        notes1 == IF score1 = "good" THEN <<grade \o " neighborhood">>
                  ELSE IF score1 = "bad"
                       THEN <<grade \o " neighborhood - below threshold">>
                  ELSE << >>
        beds == IF IsSome(bedCount) THEN bedCount[1] ELSE 0
        bedsGood == IsSome(bedCount) /\ beds >= MIN_GOOD_BEDS /\ beds <= MAX_GOOD_BEDS
        score2 == applyBedCount(score1, bedsGood)
        notes2 == IF ~IsSome(bedCount) THEN notes1
                  ELSE IF bedsGood
                       THEN Append(notes1, ToString(beds) \o " bedrooms")
                  ELSE IF beds < MIN_GOOD_BEDS
                       THEN Append(notes1, "Only " \o ToString(beds) \o " bedrooms")
                  ELSE Append(notes1, ToString(beds) \o " bedrooms (larger property)")
        finalScore == IF score2 = "unknown" THEN "needs_lookup" ELSE score2
        joined == JoinNotes(notes2)
    IN [score |-> finalScore,
        note |-> IF joined = "" THEN "Partial property data available" ELSE joined,
        neighborhoodGrade |-> neighborhoodGrade,
        bedCount |-> bedCount]

\* externalData?.field of an optional externalData record
Ext(ext, field) ==
  IF IsSome(ext) THEN ext[1][field] ELSE None

\* mutation: the plaintiff's concerns are dropped
initialConcerns_Empty(pr) == << >>

\* const concerns = [...parseResult.plaintiff.concerns]
initialConcerns(pr) == pr.plaintiff.concerns

stopsAtLevel1(level1) == level1.score = "bad"

\* mutation: a bad level 2 no longer ends the classification
stopsAtLevel2_Never(level2) == FALSE

stopsAtLevel2(level2) == level2.score = "bad"

needsReview(level1, level2, level3, level4) ==
  \/ level1.score = "unknown"
  \/ level2.score = "unknown"
  \/ level3.score = "needs_lookup"
  \/ level4.score = "needs_lookup"
  \/ level3.score = "unknown"
  \/ level4.score = "unknown"

\* mutation: level 4 is not looked at
overallScoreOf_IgnoresLevel4(level1, level2, level3, level4) ==
  IF level1.score = "unknown" \/ level2.score = "unknown"
     \/ level3.score = "needs_lookup" \/ level3.score = "unknown"
  THEN "review"
  ELSE IF level3.score # "good" THEN "review"
  ELSE "good"

\* mutation: an unknown plaintiff does not force a review
overallScoreOf_IgnoresLevel1(level1, level2, level3, level4) ==
  IF level2.score = "unknown"
     \/ level3.score = "needs_lookup" \/ level4.score = "needs_lookup"
     \/ level3.score = "unknown" \/ level4.score = "unknown"
  THEN "review"
  ELSE IF level3.score # "good" \/ level4.score # "good" THEN "review"
  ELSE "good"

\* mutation: too little equity alone makes the lead bad
overallScoreOf_BadOnEquity(level1, level2, level3, level4) ==
  IF level3.score = "bad" THEN "bad"
  ELSE IF needsReview(level1, level2, level3, level4) THEN "review"
  ELSE IF level3.score # "good" \/ level4.score # "good" THEN "review"
  ELSE "good"

overallScoreOf(level1, level2, level3, level4) ==
  IF needsReview(level1, level2, level3, level4) THEN "review"
  ELSE IF level3.score # "good" \/ level4.score # "good" THEN "review"
  ELSE "good"

\* mutation: the property-quality concern is never pushed
pushedConcerns_EquityOnly(level1, level2, level3, level4) ==
  IF level1.score = "unknown" \/ level2.score = "unknown"
     \/ level3.score \in {"needs_lookup", "unknown"}
     \/ level4.score \in {"needs_lookup", "unknown"}
  THEN << >>
  ELSE IF level3.score # "good" THEN <<EQUITY_CONCERN>> ELSE << >>

\* the concerns.push(...) calls of the second branch
pushedConcerns(level1, level2, level3, level4) ==
  IF needsReview(level1, level2, level3, level4) THEN << >>
  ELSE IF level3.score # "good" \/ level4.score # "good"
       THEN (IF level3.score # "good" THEN <<EQUITY_CONCERN>> ELSE << >>)
            \o (IF level4.score # "good" THEN <<QUALITY_CONCERN>> ELSE << >>)
  ELSE << >>

classifyLead(pr, ext, nowT) ==
  LET concerns == initialConcerns(pr)
      level1 == classifyLevel1(pr.plaintiff)
      level2 == classifyLevel2(pr.defendant)
      level3 == classifyLevel3(Ext(ext, "purchaseDate"), nowT)
      level4base == classifyLevel4(Ext(ext, "neighborhoodGrade"), Ext(ext, "bedCount"))
      level4 == IF TruthyNum(Ext(ext, "bathCount"))
                THEN [bathCount |-> Ext(ext, "bathCount")] @@ level4base
                ELSE level4base
  IN IF stopsAtLevel1(level1)
     THEN [level1 |-> level1,
           level2 |-> [score |-> "unknown", defendant |-> pr.defendant,
                       note |-> SKIPPED_L1],
           level3 |-> [score |-> "unknown", note |-> SKIPPED_L1],
           level4 |-> [score |-> "unknown", note |-> SKIPPED_L1],
           overallScore |-> "bad",
           stopReason |-> "Level 1: " \o level1.note,
           concerns |-> concerns]
     ELSE IF stopsAtLevel2(level2)
     THEN [level1 |-> level1,
           level2 |-> level2,
           level3 |-> [score |-> "unknown", note |-> SKIPPED_L2],
           level4 |-> [score |-> "unknown", note |-> SKIPPED_L2],
           overallScore |-> "bad",
           stopReason |-> "Level 2: " \o level2.note,
           concerns |-> concerns]
     ELSE [level1 |-> level1,
           level2 |-> level2,
           level3 |-> level3,
           level4 |-> level4,
           overallScore |-> overallScoreOf(level1, level2, level3, level4),
           concerns |-> concerns \o pushedConcerns(level1, level2, level3, level4)]

\* pvaData.lastSaleDate || undefined, pvaData.bedrooms || undefined, ...
OrUndefinedNum(o) == IF TruthyNum(o) THEN o ELSE None

createClassifiedLeadWithPvaData(pvaData) ==
  Some([purchaseDate |-> pvaData.lastSaleDate,
        neighborhoodGrade |-> None,
        bedCount |-> OrUndefinedNum(pvaData.bedrooms),
        bathCount |-> OrUndefinedNum(pvaData.bathrooms)])

(***************************************************************************)
(* notifications/slack: blocks                                             *)
(***************************************************************************)
HEADER_TEXT == 150
SECTION_TEXT == 3000
BLOCKS_PER_MESSAGE == 50
ELLIPSIS_LENGTH == 3
SAFETY_BUFFER == 100

\* literal text: n visible characters
W(n) == X(n, "lit")

\* words of the given lengths separated by single spaces
RECURSIVE TWords(_, _)
TWords(lens, tag) ==
  IF lens = << >> THEN << >>
  ELSE IF Len(lens) = 1 THEN X(lens[1], tag)
  ELSE CatAll(<<X(lens[1], tag), SP(1), TWords(Tail(lens), tag)>>)

\* literal words
Words(lens) == TWords(lens, "lit")

\* length of the decimal form of a natural number
RECURSIVE DecLen(_)
DecLen(n) == IF n < 10 THEN 1 ELSE 1 + DecLen(n \div 10)

\* Number.prototype.toLocaleString() of an integer: digits grouped by commas
toLocaleString(n) ==
  LET digits == DecLen(IF n < 0 THEN -n ELSE n)
  IN X((IF n < 0 THEN 1 ELSE 0) + digits + (digits - 1) \div 3, "num")

\* mutation: the text is cut to maxLength and the ellipsis added behind it
truncateSlackText_EllipsisBeyond(text, maxLength) ==
  LET sanitized == sanitizeSlackText(text)
  IN IF StrLen(sanitized) <= maxLength THEN sanitized
     ELSE Cat(Slice(sanitized, maxLength), W(ELLIPSIS_LENGTH))

truncateSlackText(text, maxLength) ==
  LET sanitized == sanitizeSlackText(text)
  IN IF StrLen(sanitized) <= maxLength THEN sanitized
     ELSE Cat(Slice(sanitized, maxLength - ELLIPSIS_LENGTH), W(ELLIPSIS_LENGTH))

createSectionBlock(text) ==
  [type |-> "section", text |-> truncateSlackText(text, SECTION_TEXT)]

createHeaderBlock(text) ==
  [type |-> "header", text |-> truncateSlackText(text, HEADER_TEXT), emoji |-> TRUE]

Divider == [type |-> "divider"]

(***************************************************************************)
(* notifications/slack: one lead as text                                   *)
(***************************************************************************)
\* a || b on strings
OrElse(a, b) == IF a # Empty THEN a ELSE b

\* '$' + amount.toLocaleString(), 'N/A' for null
formatCurrency(amount) ==
  IF ~IsSome(amount) THEN W(3) ELSE Cat(X(1, "num"), toLocaleString(amount[1]))

\* Date.prototype.toLocaleDateString()
toLocaleDateString(d) ==
  IF d.valid THEN X(d.localeLen, "num") ELSE Words(<<7, 4>>)

\* a number in a template literal
NumText(n) == X((IF n < 0 THEN 1 ELSE 0) + DecLen(IF n < 0 THEN -n ELSE n), "num")

\* yearsOwned.toFixed(1); the number is kept in tenths
toFixed1(tenths) == X(DecLen(tenths \div 10) + 2, "num")

PvaLines(pva) ==
  LET equityParts ==
        (IF IsSome(pva.yearsOwned)
         THEN <<CatAll(<<toFixed1(pva.yearsOwned[1]), SP(1), Words(<<5, 5>>)>>)>>
         ELSE << >>)
        \o (IF IsSome(pva.estimatedEquity)
            THEN <<CatAll(<<Words(<<4, 7>>), SP(1),
                            W(IF pva.estimatedEquity[1] >= 50000 THEN 10 ELSE 18),
                            SP(1), formatCurrency(pva.estimatedEquity)>>)>>
            ELSE << >>)
      saleParts ==
        (IF IsSome(pva.lastSaleDate)
         THEN <<CatAll(<<W(10), SP(1), toLocaleDateString(pva.lastSaleDate[1])>>)>>
         ELSE << >>)
        \o (IF TruthyNum(pva.lastSalePrice)
            THEN <<CatAll(<<W(3), SP(1), formatCurrency(pva.lastSalePrice)>>)>>
            ELSE << >>)
        \o (IF TruthyNum(pva.assessedValue)
            THEN <<CatAll(<<W(10), SP(1), formatCurrency(pva.assessedValue), W(1)>>)>>
            ELSE << >>)
      propertyParts ==
        (IF TruthyNum(pva.bedrooms)
         THEN <<CatAll(<<NumText(pva.bedrooms[1]), SP(1), W(3)>>)>> ELSE << >>)
        \o (IF TruthyNum(pva.bathrooms)
            THEN <<CatAll(<<NumText(pva.bathrooms[1]), SP(1), W(4)>>)>> ELSE << >>)
        \o (IF TruthyNum(pva.squareFeet)
            THEN <<CatAll(<<toLocaleString(pva.squareFeet[1]), SP(1), W(4)>>)>>
            ELSE << >>)
        \o (IF TruthyNum(pva.yearBuilt)
            THEN <<CatAll(<<W(5), SP(1), NumText(pva.yearBuilt[1])>>)>> ELSE << >>)
      bar == CatAll(<<SP(1), W(1), SP(1)>>)
  IN (IF equityParts # << >>
      THEN <<Cat(SP(2), Join(equityParts, bar))>> ELSE << >>)
     \o (IF IsSome(pva.lastSaleDate) \/ TruthyNum(pva.lastSalePrice)
         THEN <<Cat(SP(2), Join(saleParts, SP(1)))>> ELSE << >>)
     \o (IF propertyParts # << >>
         THEN <<CatAll(<<SP(2), W(7), SP(1), Join(propertyParts, bar)>>)>> ELSE << >>)

formatLeadForSlack(lead) ==
  LET hasAddress == IsSome(lead.propertyAddress)
      cleaned == IF hasAddress THEN lead.propertyAddress[1].cleaned ELSE Empty
      quality == IF hasAddress THEN lead.propertyAddress[1].quality ELSE ""
      address == sanitizeSlackText(OrElse(cleaned, Words(<<7, 3, 5>>)))
      qualityIndicator == IF quality = "high" THEN W(18)
                          ELSE IF quality = "medium" THEN W(21)
                          ELSE W(12)
      addressLine == CatAll(<<W(1), SP(1), W(1), address, W(1), SP(1),
                              IF hasAddress THEN qualityIndicator ELSE Empty>>)
      plaintiffName == sanitizeSlackText(lead.plaintiff.name)
      defendantName == sanitizeSlackText(lead.defendant.name)
      TypeText(type) == IF type # "unknown"
                        THEN CatAll(<<SP(1), W(1), X(Len(type), "type"), W(1)>>)
                        ELSE Empty
      plaintiffLine == CatAll(<<SP(2), W(10), SP(1), plaintiffName,
                                TypeText(lead.plaintiff.type)>>)
      defendantLine == CatAll(<<SP(2), W(10), SP(1), defendantName,
                                TypeText(lead.defendant.type)>>)
      mailingLines ==
        IF IsSome(lead.mailingAddress)
           /\ (~hasAddress \/ lead.mailingAddress[1].cleaned # cleaned)
        THEN <<CatAll(<<SP(2), W(8), SP(1), lead.mailingAddress[1].cleaned>>)>>
        ELSE << >>
      pvaLines == IF IsSome(lead.pvaData) THEN PvaLines(lead.pvaData[1]) ELSE << >>
      concerns == lead.classification.concerns
      concernLines == [i \in 1..Len(concerns) |->
                         CatAll(<<SP(2), W(9), SP(1), concerns[i]>>)]
      hasGoodAddress == hasAddress /\ quality \in {"high", "medium"}
      Link(url, labelLen) == CatAll(<<W(1), url, W(labelLen)>>)
      bar == CatAll(<<SP(1), W(1), SP(1)>>)
      linkLines ==
        IF ~IsSome(lead.lookupLinks) THEN << >>
        ELSE LET links == lead.lookupLinks[1]
             IN << Cat(SP(2), Join(<<Link(links.zillow, 8), Link(links.googleMaps, 6),
                                     Link(links.pva, 5)>>, bar)),
                   CatAll(<<SP(2), W(20), SP(1),
                            Join(<<Link(links.truePeopleSearch, 12),
                                   Link(links.fastPeopleSearch, 12)>>, bar)>>) >>
                \o (IF ~hasGoodAddress
                    THEN <<CatAll(<<SP(2), Words(<<21, 5, 5, 2, 9, 4, 8, 8>>), SP(1),
                                    X(IF quality # "" THEN Len(quality) ELSE 4, "type"),
                                    W(2)>>)>>
                    ELSE << >>)
  IN Join(<<addressLine, plaintiffLine, defendantLine>> \o mailingLines \o pvaLines
          \o concernLines \o linkLines, NL(1))

formatFilteredLeadForSlack(lead) ==
  LET reason == sanitizeSlackText(
                  OrElse(IF IsSome(lead.classification.stopReason)
                         THEN lead.classification.stopReason[1] ELSE Empty,
                         Words(<<7, 6>>)))
      name == sanitizeSlackText(
                OrElse(lead.defendant.name, OrElse(lead.plaintiff.name, lead.id)))
  IN CatAll(<<W(1), SP(1), reason, W(1), SP(1), name>>)

(***************************************************************************)
(* notifications/slack: the report                                         *)
(***************************************************************************)
WithScore(ls, score) == SelectSeq(ls, LAMBDA l : l.classification.overallScore = score)

groupLeadsByScore(ls) ==
  [good |-> WithScore(ls, "good"),
   review |-> WithScore(ls, "review"),
   bad |-> WithScore(ls, "bad")]

FormatWith(formatter, lead) ==
  IF formatter = "filtered" THEN formatFilteredLeadForSlack(lead)
  ELSE formatLeadForSlack(lead)

\* if (currentText) blocks.push(createSectionBlock(currentText))
FlushBlock(blocks, currentText) ==
  IF currentText # Empty THEN Append(blocks, createSectionBlock(currentText))
  ELSE blocks

\* mutation: a lead that does not fit the current block is left out
RECURSIVE AddLeadBlocksLoop_DropsOverflow(_, _, _, _)
AddLeadBlocksLoop_DropsOverflow(ls, formatter, separator, currentText) ==
  IF ls = << >> THEN FlushBlock(<< >>, currentText)
  ELSE LET leadText == sanitizeSlackText(FormatWith(formatter, Head(ls)))
           potentialText == IF currentText # Empty
                            THEN CatAll(<<currentText, separator, leadText>>)
                            ELSE leadText
       IN IF StrLen(potentialText) > SECTION_TEXT - SAFETY_BUFFER
          THEN FlushBlock(<< >>, currentText)
               \o AddLeadBlocksLoop_DropsOverflow(Tail(ls), formatter, separator, Empty)
          ELSE AddLeadBlocksLoop_DropsOverflow(Tail(ls), formatter, separator,
                                               potentialText)

\* mutation: a block is filled up to the full section limit
RECURSIVE AddLeadBlocksLoop_NoBuffer(_, _, _, _)
AddLeadBlocksLoop_NoBuffer(ls, formatter, separator, currentText) ==
  IF ls = << >> THEN FlushBlock(<< >>, currentText)
  ELSE LET leadText == sanitizeSlackText(FormatWith(formatter, Head(ls)))
           potentialText == IF currentText # Empty
                            THEN CatAll(<<currentText, separator, leadText>>)
                            ELSE leadText
       IN IF StrLen(potentialText) > SECTION_TEXT
          THEN FlushBlock(<< >>, currentText)
               \o AddLeadBlocksLoop_NoBuffer(Tail(ls), formatter, separator, leadText)
          ELSE AddLeadBlocksLoop_NoBuffer(Tail(ls), formatter, separator, potentialText)

\* the for loop of addLeadBlocks and the push that follows it: the blocks
\* pushed from the lead Head(ls) on, in the order they are pushed
RECURSIVE AddLeadBlocksLoop(_, _, _, _)
AddLeadBlocksLoop(ls, formatter, separator, currentText) ==
  IF ls = << >> THEN FlushBlock(<< >>, currentText)
  ELSE LET leadText == sanitizeSlackText(FormatWith(formatter, Head(ls)))
           potentialText == IF currentText # Empty
                            THEN CatAll(<<currentText, separator, leadText>>)
                            ELSE leadText
       IN IF StrLen(potentialText) > SECTION_TEXT - SAFETY_BUFFER
          THEN FlushBlock(<< >>, currentText)
               \o AddLeadBlocksLoop(Tail(ls), formatter, separator, leadText)
          ELSE AddLeadBlocksLoop(Tail(ls), formatter, separator, potentialText)

\* blocks is only ever pushed to
addLeadBlocks(blocks, ls, formatter, separator) ==
  blocks \o AddLeadBlocksLoop(ls, formatter, separator, Empty)

\* a section heading such as '*Good Leads (3)*'
Heading(emojiLen, wordLens, n) ==
  createSectionBlock(
    CatAll(<<W(emojiLen), SP(1), Words(wordLens), SP(1), W(1), NumText(n), W(2)>>))

\* if (group.length > 0) { push the heading; addLeadBlocks(...); push dividers }
LeadSection(group, heading, formatter, separator, dividers) ==
  IF group = << >> THEN << >>
  ELSE addLeadBlocks(<<heading>>, group, formatter, separator) \o dividers

SummaryBlocks(ls, grouped, dateText) ==
  << createHeaderBlock(CatAll(<<Words(<<3, 7, 6, 1>>), SP(1), dateText>>)),
     createSectionBlock(
       CatAll(<<Words(<<5>>), SP(1), W(1), NumText(Len(ls)), W(1), SP(1),
                Words(<<6, 18>>), SP(1), NumText(Len(grouped.good)), SP(1),
                Words(<<4, 1, 6>>), SP(1), NumText(Len(grouped.review)), SP(1),
                Words(<<4, 6, 1, 3>>), SP(1), NumText(Len(grouped.bad)), SP(1),
                Words(<<8, 3>>)>>)),
     Divider >>

\* mutation: the review section is put in front of the good one
AssembleBlocks_ReviewFirst(ls, grouped, dateText) ==
  SummaryBlocks(ls, grouped, dateText)
  \o LeadSection(grouped.review, Heading(6, <<6, 6>>, Len(grouped.review)),
                 "full", NL(2), <<Divider>>)
  \o LeadSection(grouped.good, Heading(18, <<5, 5>>, Len(grouped.good)),
                 "full", NL(2), <<Divider>>)
  \o LeadSection(grouped.bad, Heading(3, <<9, 3>>, Len(grouped.bad)),
                 "filtered", NL(1), << >>)

\* every block assembled, before the cap
AssembleBlocks(ls, grouped, dateText) ==
  SummaryBlocks(ls, grouped, dateText)
  \o LeadSection(grouped.good, Heading(18, <<5, 5>>, Len(grouped.good)),
                 "full", NL(2), <<Divider>>)
  \o LeadSection(grouped.review, Heading(6, <<6, 6>>, Len(grouped.review)),
                 "full", NL(2), <<Divider>>)
  \o LeadSection(grouped.bad, Heading(3, <<9, 3>>, Len(grouped.bad)),
                 "filtered", NL(1), << >>)

\* mutation: the blocks beyond the limit are dropped without the warning
CapBlocks_Silent(blocks) ==
  [blocks |-> IF Len(blocks) > BLOCKS_PER_MESSAGE
              THEN SubSeq(blocks, 1, BLOCKS_PER_MESSAGE) ELSE blocks,
   warned |-> FALSE]

\* if (blocks.length > BLOCKS_PER_MESSAGE) { console.warn(...); blocks.length = ... }
CapBlocks(blocks) ==
  [blocks |-> IF Len(blocks) > BLOCKS_PER_MESSAGE
              THEN SubSeq(blocks, 1, BLOCKS_PER_MESSAGE) ELSE blocks,
   warned |-> Len(blocks) > BLOCKS_PER_MESSAGE]

FallbackText(grouped) ==
  CatAll(<<Words(<<3, 7, 7>>), SP(1), NumText(Len(grouped.good)), SP(1), W(5),
           SP(1), NumText(Len(grouped.review)), SP(1), W(7), SP(1),
           NumText(Len(grouped.bad)), SP(1), W(8)>>)

WithGroups(ls, grouped, dateText) ==
  [text |-> FallbackText(grouped)] @@ CapBlocks(AssembleBlocks(ls, grouped, dateText))

formatLeadsForSlack(ls, dateText) == WithGroups(ls, groupLeadsByScore(ls), dateText)

(***************************************************************************)
(* Inputs                                                                  *)
(***************************************************************************)
Tok(w, cap) == [w |-> w, cap |-> cap]

\* what extractPlaintiffName / extractDefendantName return when no pattern matches
UNKNOWN_PLAINTIFF == <<Tok("unknown", "title"), Tok("plaintiff", "title")>>
UNKNOWN_DEFENDANT == <<Tok("unknown", "title"), Tok("defendant", "title")>>

PlaintiffNames ==
  { <<Tok("wells", "upper"), Tok("fargo", "upper"), Tok("bank", "upper"), Tok("n.a.", "upper")>>,
    <<Tok("members", "title"), Tok("credit", "title"), Tok("union", "title")>>,
    <<Tok("national", "title"), Tok("mortgage", "title"), Tok("servicing", "title")>>,
    <<Tok("abc", "upper"), Tok("lending", "title"), Tok("llc", "upper")>>,
    <<Tok("abc", "upper"), Tok("construction", "title"), Tok("llc", "upper")>>,
    <<Tok("premier", "title"), Tok("service", "title"), Tok("llc", "upper")>>,
    <<Tok("oakwood", "title"), Tok("hoa", "upper")>>,
    <<Tok("hoa", "upper"), Tok("financial", "title")>>,
    <<Tok("city", "title"), Tok("of", "lower"), Tok("lexington", "title")>>,
    <<Tok("county", "title"), Tok("bank", "title")>>,
    <<Tok("john", "title"), Tok("smith", "title")>>,
    UNKNOWN_PLAINTIFF,
    <<Tok("acme", "upper")>> }

DefendantNames ==
  { <<Tok("john", "title"), Tok("doe", "title")>>,
    <<Tok("john", "title"), Tok("and", "lower"), Tok("jane", "title"), Tok("smith", "title")>>,
    <<Tok("smith", "title"), Tok("family", "title"), Tok("trust", "title")>>,
    <<Tok("abc", "upper"), Tok("trust", "title"), Tok("company", "title")>>,
    <<Tok("abc", "upper"), Tok("properties", "title"), Tok("llc", "upper")>>,
    <<Tok("jones", "title"), Tok("corporation", "title")>>,
    <<Tok("smith", "title"), Tok("and", "lower"), Tok("sons", "title"), Tok("inc.", "title")>>,
    UNKNOWN_DEFENDANT }

\* the segments of the text before "vs", split on "and" / "&"
VsSections(name) ==
  { <<name>>,
    <<name, <<Tok("us", "upper"), Tok("bank", "upper")>> >>,
    <<name, <<Tok("jane", "title"), Tok("roe", "title")>> >> }

PlaintiffTypes ==
  {"bank", "credit_union", "mortgage_servicer", "hoa", "llc", "government",
   "individual", "unknown"}
DefendantTypes == {"individual", "couple", "trust", "llc", "unknown"}

ConcernLists == { << >>, <<MULTI_PLAINTIFF_CONCERN, EQUITY_CONCERN>> }

DirectPlaintiffs ==
  [name : {<<Tok("plaintiff", "title")>>}, type : PlaintiffTypes,
   isGoodLead : BOOLEAN, concerns : ConcernLists]
DirectDefendants ==
  [name : {<<Tok("defendant", "title")>>}, type : {"individual", "trust", "llc"},
   isGoodLead : BOOLEAN]

InvalidDate == [valid |-> FALSE, t |-> 0]
Dates == {[valid |-> TRUE, t |-> d] : d \in 0..MaxPurchaseDay} \cup {InvalidDate}
OptDates == {None} \cup {Some(d) : d \in Dates}
OptGrades == {None, Some(""), Some("b-"), Some("C+"), Some("n/a")}
OptBeds == {None} \cup {Some(n) : n \in {0, 2, 3, 5, MaxBeds}}
OptBaths == {None, Some(0), Some(2)}

ExternalDatas ==
  {None} \cup
  { Some(e) : e \in [purchaseDate : OptDates, neighborhoodGrade : OptGrades,
                     bedCount : OptBeds, bathCount : {None, Some(2)}] }

PvaDatas ==
  [lastSaleDate : OptDates, bedrooms : OptBeds, bathrooms : OptBaths]

MakeParseResult(plaintiff, defendant) ==
  [plaintiff |-> plaintiff, defendant |-> defendant]

\* the processFayette runs in flight, and a run that has not started
Runs == {"first", "second"}
NotStarted == [pc |-> "idle", rows |-> 0, browserInstance |-> None, byOwner |-> FALSE]

(***************************************************************************)
(* Classifier specification                                                *)
(***************************************************************************)
Init ==
  /\ now = StartDay
  /\ calledAt = StartDay
  /\ parseResult = None
  /\ externalData = None
  /\ classification = None
  /\ leads = << >>
  /\ report = None
  /\ parsed = None
  /\ previous = None
  /\ ignoreAddresses = None
  /\ scored = None
  /\ normalized = None
  /\ heap = << >>
  /\ args = None
  /\ created = << >>
  /\ browser = None
  /\ browsers = << >>
  /\ runs = [r \in Runs |-> NotStarted]

\* time passes between calls
Tick ==
  /\ classification = None
  /\ now < StartDay + MaxTicks
  /\ now' = now + 1
  /\ UNCHANGED <<calledAt, parseResult, externalData, classification, slackVars,
               parserVars, utilityVars>>

Classify(pr, ext) ==
  /\ parseResult' = Some(pr)
  /\ externalData' = ext
  /\ calledAt' = now
  /\ classification' = Some(classifyLead(pr, ext, now))
  /\ UNCHANGED <<now, slackVars, parserVars, utilityVars>>

\* classifyLead / createClassifiedLead called with caller-built records
ClassifyLeadCall ==
  /\ classification = None
  /\ \E p \in DirectPlaintiffs, d \in DirectDefendants, ext \in ExternalDatas :
     Classify(MakeParseResult(p, d), ext)

\* processPdf without PVA data: parseLisPendens, then createClassifiedLead
ProcessPdf ==
  /\ classification = None
  /\ \E pn \in PlaintiffNames, dn \in DefendantNames :
    \E vs \in VsSections(pn) :
       Classify(MakeParseResult(classifyPlaintiff(pn, vs), classifyDefendant(dn)), None)

\* processPdf with PVA data: parseLisPendens, then createClassifiedLeadWithPva
ProcessPdfWithPva ==
  /\ classification = None
  /\ \E pn \in PlaintiffNames, dn \in DefendantNames, pva \in PvaDatas :
    \E vs \in VsSections(pn) :
       Classify(MakeParseResult(classifyPlaintiff(pn, vs), classifyDefendant(dn)),
                createClassifiedLeadWithPvaData(pva))

\* the caller consumes the result; the next document can be classified
Consume ==
  /\ classification # None
  /\ parseResult' = None
  /\ externalData' = None
  /\ classification' = None
  /\ UNCHANGED <<now, calledAt, slackVars, parserVars, utilityVars>>

Next == Tick \/ ClassifyLeadCall \/ ProcessPdf \/ ProcessPdfWithPva \/ Consume

Spec == Init /\ [][Next]_vars

(***************************************************************************)
(* Formatter inputs: ClassifiedLead records as a caller hands them over    *)
(***************************************************************************)
Url(n) == X(n, "url")

SampleLinks ==
  Some([pva |-> Url(23), zillow |-> Url(26), googleMaps |-> Url(24),
        truePeopleSearch |-> Url(23), fastPeopleSearch |-> Url(23)])

\* '123 Main St, Lexington, KY 40508'
SampleAddress(quality) ==
  Some([cleaned |-> TWords(<<3, 4, 3, 10, 2, 5>>, "address"), quality |-> quality])

SlackClassification(score, concerns, stopReason) ==
  [overallScore |-> score, concerns |-> concerns, stopReason |-> stopReason]

SlackLead(id, score, defendantName) ==
  [id |-> X(8, id),
   propertyAddress |-> SampleAddress("high"),
   mailingAddress |-> None,
   plaintiff |-> [name |-> TWords(<<5, 5, 4>>, "plaintiff"), type |-> "bank"],
   defendant |-> [name |-> defendantName, type |-> "individual"],
   classification |-> SlackClassification(score, << >>, None),
   lookupLinks |-> SampleLinks,
   pvaData |-> None]

SamplePva ==
  Some([yearsOwned |-> Some(62), estimatedEquity |-> Some(125000),
        lastSaleDate |-> Some([valid |-> TRUE, t |-> 0, localeLen |-> 9]),
        lastSalePrice |-> Some(98500), assessedValue |-> Some(223500),
        bedrooms |-> Some(3), bathrooms |-> Some(2), squareFeet |-> Some(1850),
        yearBuilt |-> Some(1987)])

\* 'TWILLIAM A. HYERS, etal. T[degree] 77 7' with further scanner debris
OcrName ==
  CatAll(<<X(8, "ocr"), SP(1), X(2, "ocr"), CTL(1), SP(2), X(6, "ocr"), NL(1), SP(1),
           X(5, "ocr"), SP(1), X(1, "ocr"), DEG(1), SP(1), X(2, "ocr"), CR(1),
           X(1, "ocr"), TAB(1), SP(1)>>)

LeadKinds ==
  { \* an ordinary good lead
    SlackLead("short", "good", TWords(<<4, 3>>, "short")),
    \* a long name: two such leads do not fit one block
    SlackLead("long", "review", X(1500, "long")),
    \* one lead whose text alone is longer than a section may be
    SlackLead("huge", "review", X(3500, "huge")),
    \* a lead that stopped at level 1
    [SlackLead("bad", "bad", TWords(<<6, 3>>, "bad")) EXCEPT
       !.classification = SlackClassification("bad", << >>,
                            Some(TWords(<<5, 2, 3, 9, 1, 3, 1, 11>>, "reason")))],
    \* a filtered lead without stopReason or names, only an over-long id
    [SlackLead("anon", "bad", Empty) EXCEPT
       !.id = X(3200, "anon"), !.plaintiff.name = Empty],
    \* scanner debris, no usable address, PVA data, concerns, mailing address
    [SlackLead("ocr", "good", OcrName) EXCEPT
       !.propertyAddress = SampleAddress("low"),
       !.mailingAddress = Some([cleaned |-> TWords(<<2, 3, 2>>, "mailing"),
                                quality |-> "medium"]),
       !.pvaData = SamplePva,
       !.classification = SlackClassification("good",
                            <<TWords(<<8, 10, 1, 9, 6, 8>>, "concern"),
                              TWords(<<7, 6, 8>>, "concern")>>, None)] }

\* n documents of one kind
Batch(lead, n) == [i \in 1..n |-> lead]

BatchSizes == {1, BigBatch}

\* the results of one run: a batch of one kind, then possibly one of another
LeadLists ==
  { Batch(first, n) \o Batch(second, m) :
      first \in LeadKinds, n \in BatchSizes,
      second \in LeadKinds, m \in {0} \cup BatchSizes }

\* the lengths toLocaleDateString() can have for today's date
LocaleDateLengths == {8, 10}

(***************************************************************************)
(* Formatter specification                                                 *)
(***************************************************************************)
\* processFayette collects the results of a run
CollectLeads ==
  /\ report = None
  /\ leads = << >>
  /\ \E ls \in LeadLists : leads' = ls
  /\ UNCHANGED <<classifierVars, report, parserVars, utilityVars>>

\* publishLeadReport, with the message handed to publishToSlack
NO_LEADS_MESSAGE ==
  [text |-> Words(<<2, 3, 5, 5, 2, 3, 6, 6>>), blocks |-> << >>, warned |-> FALSE]

FormatReport ==
  /\ report = None
  /\ \E n \in LocaleDateLengths :
       report' = IF leads = << >> THEN Some(NO_LEADS_MESSAGE)
                 ELSE Some(formatLeadsForSlack(leads, X(n, "num")))
  /\ UNCHANGED <<classifierVars, leads, parserVars, utilityVars>>

\* the next run starts with an empty list
NextRun ==
  /\ report # None
  /\ leads' = << >>
  /\ report' = None
  /\ UNCHANGED <<classifierVars, parserVars, utilityVars>>

NextSlack == CollectLeads \/ FormatReport \/ NextRun

SpecSlack == Init /\ [][NextSlack]_vars

(***************************************************************************)
(* Parser inputs: candidate strings, documents, ignore lists               *)
(***************************************************************************)
\* atoms with one U+0020 between neighbours
Phrase(atoms) ==
  [i \in 1..(2 * Len(atoms) - 1) |->
     IF i % 2 = 1 THEN atoms[(i + 1) \div 2] ELSE Space]

MainStreet == Phrase(<<Digits("123"), Letters("main", "title"), Letters("st", "title")>>)
MainStreetUpper ==
  Phrase(<<Digits("123"), Letters("main", "upper"), Letters("st", "upper")>>)
OakAvenue == Phrase(<<Digits("456"), Letters("oak", "title"), Letters("avenue", "title")>>)
LexingtonRoad ==
  Phrase(<<Digits("100"), Letters("lexington", "title"), Letters("rd", "title")>>)
KentuckyAvenue ==
  Phrase(<<Digits("200"), Letters("kentucky", "title"), Letters("ave", "title")>>)
CityStateZip ==
  <<Comma, Space, Letters("lexington", "title"), Comma, Space, Letters("ky", "upper"),
    Space, Digits("40508")>>
FullAddress == MainStreet \o CityStateZip
\* '12 south of Main St, Lexington, KY 40508': every signal and a phrase
SouthOfFull ==
  Phrase(<<Digits("12"), Letters("south", "lower"), Letters("of", "lower"),
           Letters("main", "title"), Letters("st", "title")>>) \o CityStateZip
\* '789 Elm Drive, Unit 4B'
ElmDriveUnit ==
  Phrase(<<Digits("789"), Letters("elm", "title"), Letters("drive", "title")>>)
  \o <<Comma, Space, Letters("unit", "title"), Space, Digits("4"), Letters("b", "upper")>>

\* what the ADDRESS_PATTERNS can match in a normalized text
ExtractedMatches ==
  {MainStreet, MainStreetUpper, OakAvenue, LexingtonRoad, FullAddress, SouthOfFull}

\* strings a caller may pass to scoreAddressCandidate
AddressTexts ==
  ExtractedMatches \cup
  { KentuckyAvenue, ElmDriveUnit,
    Phrase(<<Letters("filed", "lower"), Letters("in", "lower"),
             Letters("circuit", "lower"), Letters("court", "lower")>>),
    Phrase(<<Letters("main", "title"), Letters("street", "title")>>),
    \* 'south<TAB>of 5th St': the phrase needs U+0020
    <<Letters("south", "lower"), Tab, Letters("of", "lower"), Space, Digits("5"),
      Letters("th", "lower"), Space, Letters("st", "title")>>,
    \* '  789  Elm Drive ,Unit 4B '
    <<Space, Space, Digits("789"), Space, Tab, Letters("elm", "title"), Space,
      Letters("drive", "title"), Space, Comma, Letters("unit", "title"), Space,
      Digits("4"), Letters("b", "upper"), Space>>,
    Phrase(<<Digits("1234567"), Letters("main", "title"), Letters("rd", "title")>>),
    <<Digits("40508")>>,
    Phrase(<<Digits("12345"), Letters("lexington", "title"), Letters("ky", "upper")>>),
    <<Digits("123"), Letters("a", "upper"), Space, Letters("main", "title")>>,
    \* '123 Main St, Lexington'
    MainStreet \o <<Comma, Space, Letters("lexington", "title")>>,
    << >> }

\* the lists String.prototype.match can add up to
RECURSIVE ListsUpTo(_, _)
ListsUpTo(S, n) ==
  IF n = 0 THEN {<< >>}
  ELSE ListsUpTo(S, n - 1)
       \cup {Append(l, x) : l \in {m \in ListsUpTo(S, n - 1) : Len(m) = n - 1}, x \in S}

MatchLists == ListsUpTo(ExtractedMatches, MaxMatches)

MailingMatches == {None, Some(<< >>), Some(<<OakAvenue>>)}

\* options.ignoreAddresses
IgnoreLists ==
  { None, Some(<< >>),
    Some(<<Phrase(<<Digits("123"), Letters("main", "lower"), Letters("st", "lower")>>)>>),
    \* '123 Main St,Lexington,KY 40508'
    Some(<<MainStreet \o <<Comma, Letters("lexington", "title"), Comma,
                          Letters("ky", "upper"), Space, Digits("40508")>> >>),
    \* ' 100  LEXINGTON rd' and '456 Oak Avenue'
    Some(<< <<Space, Digits("100"), Space, Space, Letters("lexington", "upper"), Space,
              Letters("rd", "lower")>>, OakAvenue >>),
    Some(<<Phrase(<<Digits("999"), Letters("nowhere", "title"), Letters("ln", "title")>>)>>) }

DocumentText(plaintiffName, vsParts, defendantName, matches, mailingMatches) ==
  [plaintiffName |-> plaintiffName, vsParts |-> vsParts,
   defendantName |-> defendantName, matches |-> matches,
   mailingMatches |-> mailingMatches]

SamplePlaintiff ==
  <<Tok("wells", "upper"), Tok("fargo", "upper"), Tok("bank", "upper"),
    Tok("n.a.", "upper")>>
SampleDefendant == <<Tok("john", "title"), Tok("doe", "title")>>

\* documents that differ in their parties
PartyDocuments ==
  { DocumentText(pn, <<pn>>, dn, <<FullAddress, MainStreet>>, None) :
      pn \in PlaintiffNames, dn \in DefendantNames }

\* documents that differ in their addresses
AddressDocuments ==
  { DocumentText(SamplePlaintiff, <<SamplePlaintiff>>, SampleDefendant, m, mm) :
      m \in MatchLists, mm \in MailingMatches }

Documents == PartyDocuments \cup AddressDocuments

\* the outcomes of the PVA lookup of processPdf: not enabled or nothing found,
\* or the record scraped
PvaOutcomes ==
  { None,
    Some([lastSaleDate |-> Some([valid |-> TRUE, t |-> 0]), bedrooms |-> Some(3),
          bathrooms |-> Some(2)]) }

(***************************************************************************)
(* Parser specification: one document at a time                            *)
(***************************************************************************)
\* a caller scores one string
ScoreAddress ==
  /\ scored = None
  /\ classification = None
  /\ \E address \in AddressTexts : scored' = Some(scoreAddressCandidate(address))
  /\ UNCHANGED <<classifierVars, slackVars, parsed, previous, ignoreAddresses, utilityVars>>

\* { ...parseResult, allAddresses: filteredAddresses }
withFiltered(result, ignoreList) ==
  [result EXCEPT !.allAddresses = filterIgnoredAddresses(result.allAddresses, ignoreList)]

\* processPdf: parseLisPendens, filterIgnoredAddresses, the PVA lookup and
\* createClassifiedLead / createClassifiedLeadWithPva
ProcessPdfDocument ==
  /\ scored = None
  /\ classification = None
  /\ \E text \in Documents :
       LET result == parseLisPendens(text)
       IN \E ignoreList \in IgnoreLists, pva \in PvaOutcomes :
            /\ previous' = parsed
            /\ parsed' = Some(result)
            /\ ignoreAddresses' = ignoreList
            /\ parseResult' = Some(withFiltered(result, ignoreList))
            /\ externalData' = IF IsSome(pva)
                               THEN createClassifiedLeadWithPvaData(pva[1]) ELSE None
            /\ calledAt' = now
            /\ classification' = Some(classifyLead(parseResult'[1], externalData', now))
  /\ UNCHANGED <<now, slackVars, scored, utilityVars>>

\* the result is returned; the next call starts afresh
Finish ==
  /\ scored # None \/ classification # None
  /\ parseResult' = None
  /\ externalData' = None
  /\ classification' = None
  /\ parsed' = None
  /\ previous' = None
  /\ ignoreAddresses' = None
  /\ scored' = None
  /\ UNCHANGED <<now, calledAt, slackVars, utilityVars>>

NextParse == ScoreAddress \/ ProcessPdfDocument \/ Finish

SpecParse == Init /\ [][NextParse]_vars

(***************************************************************************)
(* Party specification: the records of two documents parsed in a row       *)
(***************************************************************************)
ParseDocument ==
  /\ previous = None
  /\ \E text \in PartyDocuments :
       /\ previous' = parsed
       /\ parsed' = Some(parseLisPendens(text))
  /\ UNCHANGED <<classifierVars, slackVars, ignoreAddresses, scored, utilityVars>>

Forget ==
  /\ previous # None
  /\ parsed' = None
  /\ previous' = None
  /\ UNCHANGED <<classifierVars, slackVars, ignoreAddresses, scored, utilityVars>>

NextParties == ParseDocument \/ Forget

SpecParties == Init /\ [][NextParties]_vars

(***************************************************************************)
(* The text functions, each called on its own                              *)
(***************************************************************************)
\* the characters a run of the formatter's input may hold
SlackRuns ==
  {X(1, "text"), X(2, "text"), SP(1), SP(2), NL(1), TAB(1), CR(1), CTL(1), DEG(1)}

\* the strings handed to sanitizeSlackText
SlackTexts == {CatAll(t) : t \in ListsUpTo(SlackRuns, MaxRuns)}

\* the pieces of a document's text
TextAtoms ==
  {Letters("of", "lower"), Letters("a", "lower"), Letters("bank", "upper"),
   Digits("12"), Dot, Space, Tab, Newline, Return}

\* the strings handed to the normalizers: no two words touch
DocumentTexts ==
  {t \in ListsUpTo(TextAtoms, MaxAtoms) :
     \A i \in 1..(Len(t) - 1) : ~(t[i].k = "w" /\ t[i + 1].k = "w")}

Called(fn, input, output) == Some([fn |-> fn, input |-> input, output |-> output])

SanitizeSlackText ==
  /\ normalized = None
  /\ \E text \in SlackTexts :
       normalized' = Called("sanitizeSlackText", text, sanitizeSlackText(text))
  /\ UNCHANGED <<classifierVars, slackVars, parserVars, leadVars, browserVars>>

NormalizeWhitespace ==
  /\ normalized = None
  /\ \E text \in DocumentTexts :
       normalized' = Called("normalizeWhitespace", text, normalizeWhitespace(text))
  /\ UNCHANGED <<classifierVars, slackVars, parserVars, leadVars, browserVars>>

NormalizeForLegalParsing ==
  /\ normalized = None
  /\ \E text \in DocumentTexts :
       normalized' = Called("normalizeForLegalParsing", text, normalizeForLegalParsing(text))
  /\ UNCHANGED <<classifierVars, slackVars, parserVars, leadVars, browserVars>>

ReturnText ==
  /\ normalized # None
  /\ normalized' = None
  /\ UNCHANGED <<classifierVars, slackVars, parserVars, leadVars, browserVars>>

NextText == SanitizeSlackText \/ NormalizeWhitespace \/ NormalizeForLegalParsing \/ ReturnText

SpecText == Init /\ [][NextText]_vars

(***************************************************************************)
(* lead-classifier: lookup links.  A URL is its site, its shape and the    *)
(* encoded strings put into it.                                            *)
(***************************************************************************)
\* a defendant name as a string: its words with one U+0020 between them
nameString(name) ==
  Phrase([i \in 1..Len(name) |-> Letters(name[i].w, name[i].cap)])

\* the characters encodeURIComponent leaves alone besides letters and digits
UNRESERVED == {"-", "_", ".", "!", "~", "*", "'", "(", ")"}

PercentCode(v) ==
  CASE v = "sp" -> "%20"
    [] v = "tab" -> "%09"
    [] v = "nl" -> "%0A"
    [] v = "cr" -> "%0D"
    [] v = "," -> "%2C"
    [] OTHER -> "%" \o v

encodeURIComponent(t) ==
  [i \in 1..Len(t) |->
     IF t[i].k \in {"w", "d"} \/ t[i].v \in UNRESERVED THEN t[i]
     ELSE Atom("e", PercentCode(t[i].v), "")]

Link(site, shape, terms) == [site |-> site, shape |-> shape, terms |-> terms]

\* `${FAYETTE_PVA_BASE}?owner=${encodedName}`
PvaLink(encodedName) == Link("fayettepva", "?owner=", <<encodedName>>)
\* `${ZILLOW_BASE}/${encodedAddress}_rb/` or the searchQueryState form
ZillowLink(useAddress, encodedAddress, encodedName) ==
  IF useAddress THEN Link("zillow", "/_rb/", <<encodedAddress>>)
  ELSE Link("zillow", "/?searchQueryState=", <<encodedName>>)
\* `${GOOGLE_MAPS_BASE}/${encodedAddress}` or `${GOOGLE_MAPS_BASE}/${encodedName}`
GoogleMapsLink(useAddress, encodedAddress, encodedName) ==
  Link("google.com/maps", "/", <<IF useAddress THEN encodedAddress ELSE encodedName>>)

\* address && (address.quality === 'high' || address.quality === 'medium')
useAddress(address) ==
  IsSome(address) /\ address[1].quality \in {"high", "medium"}

\* cleaned.match(/,\s*([A-Za-z\s]+),\s*[A-Z]{2}/): the atoms between two commas
\* that are letters and white space, the second comma followed by two capitals
IsCityAt(t, i, j) ==
  /\ i + 1 < j
  /\ t[i] = Comma
  /\ t[j] = Comma
  /\ \A m \in (i + 1)..(j - 1) : t[m].k \in {"w", "s"}
  /\ LET after == Drop(t, j)
         n == LeadingRun(after, WhiteSpace)
     IN /\ n < Len(after)
        /\ after[n + 1].k = "w"
        /\ after[n + 1].cap = "upper"
        /\ Len(after[n + 1].v) >= 2

DEFAULT_CITY == <<Letters("lexington", "title")>>

\* cityMatch ? cityMatch[1].trim() : 'Lexington'
cityOf(address) ==
  LET t == IF IsSome(address) THEN address[1].cleaned ELSE << >>
      found == {p \in (1..Len(t)) \X (1..Len(t)) : IsCityAt(t, p[1], p[2])}
      first == CHOOSE p \in found :
                 \A q \in found : p[1] < q[1] \/ (p[1] = q[1] /\ p[2] >= q[2])
  IN IF found = {} THEN DEFAULT_CITY
     ELSE TrimWhiteSpace(SubSeq(t, first[1] + 1, first[2] - 1))

\* defendantName.split(/[\s,]+/).filter(p => p.length > 1).join('-').toLowerCase()
formattedNameForFast(name) ==
  LET nameParts == SelectSeq(name, LAMBDA p : Len(p.w) > 1)
  IN [i \in 1..Len(nameParts) |-> nameParts[i].w]

\* processor/lead-classifier: generateLookupLinks
generateLookupLinks(address, defendantName) ==
  LET encodedName == encodeURIComponent(nameString(defendantName))
      use == useAddress(address)
      encodedAddress == IF use THEN encodeURIComponent(address[1].cleaned) ELSE << >>
      city == cityOf(address)
  IN [pva |-> PvaLink(encodedName),
      zillow |-> ZillowLink(use, encodedAddress, encodedName),
      googleMaps |-> GoogleMapsLink(use, encodedAddress, encodedName),
      truePeopleSearch |->
        Link("truepeoplesearch", "?name=&citystatezip=", <<encodedName, city>>),
      fastPeopleSearch |->
        Link("fastpeoplesearch", "/_-ky",
             <<formattedNameForFast(defendantName), toLowerCase(city)>>)]

\* backend/classifiers/lead-classifier: generateLookupLinks
backend_generateLookupLinks(address, defendantName) ==
  LET encodedName == encodeURIComponent(nameString(defendantName))
      encodedAddress == IF IsSome(address)
                        THEN encodeURIComponent(address[1].cleaned) ELSE << >>
  IN [pva |-> PvaLink(encodedName),
      zillow |-> ZillowLink(IsSome(address), encodedAddress, encodedName),
      googleMaps |-> GoogleMapsLink(IsSome(address), encodedAddress, encodedName)]

(***************************************************************************)
(* lead-classifier with object identity.  heap[r] is the array or object   *)
(* behind reference r; a parseResult holds the reference of                *)
(* plaintiff.concerns, the externalData argument is a reference.           *)
(***************************************************************************)
Array(items) == [kind |-> "array", items |-> items]
Object(fields) == [kind |-> "object", fields |-> fields]

\* mutation: the array itself instead of a copy
spreadConcerns_Alias(h, ref) == [heap |-> h, ref |-> ref]

\* [...parseResult.plaintiff.concerns]: a new array with the same items
spreadConcerns(h, ref) == [heap |-> Append(h, h[ref]), ref |-> Len(h) + 1]

\* the parseResult with plaintiff.concerns read from the heap
ReadParseResult(h, pr) ==
  [pr EXCEPT !.plaintiff.concerns = h[pr.plaintiff.concerns].items]
\* the externalData argument read from the heap
ReadExternalData(h, ext) ==
  IF IsSome(ext) THEN Some(h[ext[1]].fields) ELSE None

\* classifyLead: the levels are computed from what the arguments hold, the
\* concerns are pushed onto the copy; level4.bathCount is written to the
\* object classifyLevel4 has just made
classifyLeadInHeap(h, pr, ext, nowT) ==
  LET copy == spreadConcerns(h, pr.plaintiff.concerns)
      result == classifyLead(ReadParseResult(h, pr), ReadExternalData(h, ext), nowT)
  IN [heap |-> [copy.heap EXCEPT ![copy.ref] = Array(result.concerns)],
      classification |-> [result EXCEPT !.concerns = copy.ref]]

ClassifiedLead(pr, leadClassification, lookupLinks) ==
  [propertyAddress |-> pr.propertyAddress,
   plaintiff |-> pr.plaintiff,
   defendant |-> pr.defendant,
   classification |-> leadClassification,
   lookupLinks |-> lookupLinks]

\* processor/lead-classifier: createClassifiedLead
createClassifiedLead(h, pr, ext, nowT) ==
  LET made == classifyLeadInHeap(h, pr, ext, nowT)
  IN [heap |-> made.heap,
      lead |-> ClassifiedLead(pr, made.classification,
                 generateLookupLinks(pr.propertyAddress, pr.defendant.name))]

\* backend/classifiers/lead-classifier: createClassifiedLead
backend_createClassifiedLead(h, pr, ext, nowT) ==
  LET made == classifyLeadInHeap(h, pr, ext, nowT)
  IN [heap |-> made.heap,
      lead |-> ClassifiedLead(pr, made.classification,
                 backend_generateLookupLinks(pr.propertyAddress, pr.defendant.name))]

(***************************************************************************)
(* Lead specification: a caller builds the arguments once and calls        *)
(* classifyLead and createClassifiedLead on them, keeping what they return *)
(***************************************************************************)
\* parseResult.propertyAddress: none, or a string scored high, medium or low
LeadAddresses ==
  {None} \cup {Some(scoreAddressCandidate(a)) :
                 a \in {FullAddress, MainStreet, OakAvenue,
                        Phrase(<<Letters("main", "title"), Letters("street", "title")>>),
                        <<Letters("lot", "title"), Space, Digits("7"), Comma, Space,
                          Letters("fayette", "title"), Space,
                          Letters("county", "title"), Comma, Space,
                          Letters("ky", "upper")>>}}

LeadExternalDatas ==
  { None,
    Some([purchaseDate |-> Some([valid |-> TRUE, t |-> 0]),
          neighborhoodGrade |-> Some("b-"), bedCount |-> Some(3),
          bathCount |-> Some(2)]),
    Some([purchaseDate |-> Some([valid |-> TRUE, t |-> StartDay]),
          neighborhoodGrade |-> Some("b-"), bedCount |-> Some(MaxBeds),
          bathCount |-> None]) }

LeadDefendants ==
  { [name |-> n, type |-> "individual", isGoodLead |-> g] :
      n \in {<<Tok("john", "title"), Tok("doe", "title")>>,
             <<Tok("j", "upper"), Tok("roe", "title")>>},
      g \in BOOLEAN }

\* the caller allocates plaintiff.concerns and, if any, the externalData object
BuildArguments ==
  /\ args = None
  /\ \E p \in DirectPlaintiffs, d \in LeadDefendants, address \in LeadAddresses,
        ext \in LeadExternalDatas :
       LET concernsRef == Len(heap) + 1
           h == Append(heap, Array(p.concerns))
           h2 == IF IsSome(ext) THEN Append(h, Object(ext[1])) ELSE h
       IN /\ heap' = h2
          /\ args' = Some([parseResult |->
                             [plaintiff |-> [p EXCEPT !.concerns = concernsRef],
                              defendant |-> d,
                              propertyAddress |-> address],
                           externalData |-> IF IsSome(ext) THEN Some(Len(h2)) ELSE None,
                           before |-> h2])
  /\ UNCHANGED <<classifierVars, slackVars, parserVars, normalized, created, browserVars>>

Returned(fn, made, lookupLinks) ==
  [fn |-> fn, classification |-> made, lookupLinks |-> lookupLinks]

CallClassifyLead ==
  /\ args # None
  /\ Len(created) < MaxCalls
  /\ \E made \in {classifyLeadInHeap(heap, args[1].parseResult, args[1].externalData, now)} :
        /\ heap' = made.heap
        /\ created' = Append(created, Returned("classifyLead", made.classification, None))
  /\ UNCHANGED <<classifierVars, slackVars, parserVars, normalized, args, browserVars>>

CallCreateClassifiedLead ==
  /\ args # None
  /\ Len(created) < MaxCalls
  /\ \E made \in {createClassifiedLead(heap, args[1].parseResult, args[1].externalData, now)} :
        /\ heap' = made.heap
        /\ created' = Append(created, Returned("createClassifiedLead",
                               made.lead.classification, Some(made.lead.lookupLinks)))
  /\ UNCHANGED <<classifierVars, slackVars, parserVars, normalized, args, browserVars>>

CallBackendCreateClassifiedLead ==
  /\ args # None
  /\ Len(created) < MaxCalls
  /\ \E made \in {backend_createClassifiedLead(heap, args[1].parseResult,
                                                args[1].externalData, now)} :
        /\ heap' = made.heap
        /\ created' = Append(created, Returned("backend createClassifiedLead",
                               made.lead.classification, Some(made.lead.lookupLinks)))
  /\ UNCHANGED <<classifierVars, slackVars, parserVars, normalized, args, browserVars>>

\* the caller drops the arguments and the results
Discard ==
  /\ args # None
  /\ heap' = << >>
  /\ args' = None
  /\ created' = << >>
  /\ UNCHANGED <<classifierVars, slackVars, parserVars, normalized, browserVars>>

NextLead ==
  \/ BuildArguments
  \/ CallClassifyLead
  \/ CallCreateClassifiedLead
  \/ CallBackendCreateClassifiedLead
  \/ Discard

SpecLead == Init /\ [][NextLead]_vars

(***************************************************************************)
(* fayette-pva and processFayette: the shared browser.  A run is at        *)
(*   "idle"       not called yet,                                          *)
(*   "searching"  awaiting axios.post,                                     *)
(*   "reading"    in processPdf, awaiting readPdfFromUrl,                  *)
(*   "launching"  in getBrowser, awaiting puppeteer.launch,                *)
(*   "scraping"   in scrapePvaByAddress / scrapePvaByOwner, awaiting the   *)
(*                page of browserInstance,                                 *)
(*   "closing"    in closeBrowser, awaiting browser.close(),               *)
(*   "done"       returned.                                                *)
(* What runs between two awaits is one step.                               *)
(***************************************************************************)
\* getBrowser up to its first await: `if (!browser)` starts a launch, else the
\* module's browser is returned at once
getBrowser(run, byOwner) ==
  IF browser = None
  THEN [run EXCEPT !.pc = "launching", !.browserInstance = None, !.byOwner = byOwner]
  ELSE [run EXCEPT !.pc = "scraping", !.browserInstance = browser, !.byOwner = byOwner]

\* the finally block of processFayette: closeBrowser up to its await;
\* browser.close() is called on the module's browser if there is one
closeBrowser(r) ==
  /\ runs' = [runs EXCEPT ![r] =
               [NotStarted EXCEPT !.pc = IF browser # None THEN "closing" ELSE "done"]]
  /\ browsers' = IF browser # None THEN [browsers EXCEPT ![browser[1]] = "closed"]
                 ELSE browsers
  /\ UNCHANGED browser

OtherVars == <<classifierVars, slackVars, parserVars, normalized, leadVars>>

\* processFayette({enablePvaScraping: true}) is called
StartRun(r) ==
  /\ runs[r].pc = "idle"
  /\ runs' = [runs EXCEPT ![r].pc = "searching"]
  /\ UNCHANGED <<browser, browsers, OtherVars>>

\* the search answers with n rows that have a PDF
SearchDone(r) ==
  /\ runs[r].pc = "searching"
  /\ \E n \in 0..MaxRows :
       IF n = 0 THEN closeBrowser(r)
       ELSE /\ runs' = [runs EXCEPT ![r].pc = "reading", ![r].rows = n]
            /\ UNCHANGED <<browser, browsers>>
  /\ UNCHANGED OtherVars

\* the PDF is read and parsed; the PVA lookup starts by address, or by owner
\* when the document has no address
ReadDone(r) ==
  /\ runs[r].pc = "reading"
  /\ \E byOwner \in BOOLEAN : runs' = [runs EXCEPT ![r] = getBrowser(@, byOwner)]
  /\ UNCHANGED <<browser, browsers, OtherVars>>

\* browser = await puppeteer.launch(...); return browser
LaunchDone(r) ==
  /\ runs[r].pc = "launching"
  /\ browsers' = Append(browsers, "open")
  /\ browser' = Some(Len(browsers) + 1)
  /\ runs' = [runs EXCEPT ![r].pc = "scraping", ![r].browserInstance = browser']
  /\ UNCHANGED OtherVars

\* the row is finished: the next row, or the finally block behind the loop
RowDone(r) ==
  IF runs[r].rows > 1
  THEN /\ runs' = [runs EXCEPT ![r] =
                    [NotStarted EXCEPT !.pc = "reading", !.rows = runs[r].rows - 1]]
       /\ UNCHANGED <<browser, browsers>>
  ELSE closeBrowser(r)

\* the scrape returns (with data, or null after an error): a lookup by address
\* that gave no sale date is followed by one by owner
ScrapeDone(r) ==
  /\ runs[r].pc = "scraping"
  /\ \/ /\ ~runs[r].byOwner
        /\ runs' = [runs EXCEPT ![r] = getBrowser(@, TRUE)]
        /\ UNCHANGED <<browser, browsers>>
     \/ RowDone(r)
  /\ UNCHANGED OtherVars

\* await browser.close() is over: browser = null
CloseDone(r) ==
  /\ runs[r].pc = "closing"
  /\ browser' = None
  /\ runs' = [runs EXCEPT ![r].pc = "done"]
  /\ UNCHANGED <<browsers, OtherVars>>

NextBrowser ==
  \E r \in Runs :
     \/ StartRun(r)
     \/ SearchDone(r)
     \/ ReadDone(r)
     \/ LaunchDone(r)
     \/ ScrapeDone(r)
     \/ CloseDone(r)

SpecBrowser == Init /\ [][NextBrowser]_vars

(***************************************************************************)
(* Properties of classifyLead                                              *)
(***************************************************************************)
Classified == classification # None
Result == classification[1]
Input == parseResult[1]
Level1Bad == Result.level1.score = "bad"
Level2Bad == Result.level2.score = "bad"
LevelScores ==
  {Result.level1.score, Result.level2.score, Result.level3.score, Result.level4.score}
\* what classifyLead added behind the plaintiff's concerns
AppendedConcerns ==
  SubSeq(Result.concerns, Len(Input.plaintiff.concerns) + 1, Len(Result.concerns))
AllExternalDataSupplied ==
  /\ IsSome(externalData)
  /\ IsSome(externalData[1].purchaseDate)
  /\ TruthyStr(externalData[1].neighborhoodGrade)
  /\ TruthyNum(externalData[1].bedCount)
NoExternalDataSupplied ==
  /\ ~IsSome(Ext(externalData, "purchaseDate"))
  /\ ~IsSome(Ext(externalData, "neighborhoodGrade"))
  /\ ~IsSome(Ext(externalData, "bedCount"))
SuppliedGrade ==
  IF TruthyStr(Ext(externalData, "neighborhoodGrade"))
  THEN toUpperCase(Ext(externalData, "neighborhoodGrade")[1]) ELSE ""
SuppliedBedsGood ==
  /\ IsSome(Ext(externalData, "bedCount"))
  /\ Ext(externalData, "bedCount")[1] \in MIN_GOOD_BEDS..MAX_GOOD_BEDS

\* C2: a bad level 1 leaves levels 2-4 as the "Skipped - Level 1 failed" sentinel
\* and a bad level 2 leaves levels 3-4 as the "Skipped - Level 2 failed" sentinel
\* (no evaluated result, whatever external data was given); overallScore is bad.
C2_ShortCircuit ==
  Classified =>
    /\ Level1Bad =>
         /\ Result.level2 = [score |-> "unknown", defendant |-> Input.defendant,
                              note |-> SKIPPED_L1]
         /\ Result.level3 = [score |-> "unknown", note |-> SKIPPED_L1]
         /\ Result.level4 = [score |-> "unknown", note |-> SKIPPED_L1]
         /\ Result.overallScore = "bad"
    /\ Level2Bad =>
         /\ Result.level3 = [score |-> "unknown", note |-> SKIPPED_L2]
         /\ Result.level4 = [score |-> "unknown", note |-> SKIPPED_L2]
         /\ Result.overallScore = "bad"

C2_Witness ==
  /\ Classified /\ Level2Bad /\ AllExternalDataSupplied
  /\ Result.level3.note = SKIPPED_L2

\* C3: overallScore is good if and only if all four levels scored good.
C3_GoodIffAllGood ==
  Classified => (Result.overallScore = "good" <=> LevelScores = {"good"})

C3_Witness == Classified /\ Result.overallScore = "good"

\* C4 as claimed: any level unknown or needs_lookup makes overallScore review.
C4_Original ==
  Classified =>
    (LevelScores \cap {"unknown", "needs_lookup"} # {} => Result.overallScore = "review")

\* C4 amended: when neither level 1 nor level 2 is bad, any level unknown or
\* needs_lookup makes overallScore review; a good plaintiff and defendant with no
\* external data get level3 = level4 = needs_lookup and overallScore review.
C4_ReviewWhenUndecided ==
  Classified =>
    /\ (~Level1Bad /\ ~Level2Bad
          /\ LevelScores \cap {"unknown", "needs_lookup"} # {})
         => Result.overallScore = "review"
    /\ (Input.plaintiff.isGoodLead /\ Input.defendant.isGoodLead
          /\ NoExternalDataSupplied)
         => /\ Result.level3.score = "needs_lookup"
            /\ Result.level4.score = "needs_lookup"
            /\ Result.overallScore = "review"

C4_Witness ==
  /\ Classified /\ Result.level1.score = "unknown"
  /\ Result.level3.score = "good" /\ Result.level4.score = "good"
  /\ Result.overallScore = "review"

\* C5: the returned concerns start with the plaintiff's concerns in their order;
\* only the level-3/4 concerns follow them, and nothing follows after a stop.
C5_PlaintiffConcernsKept ==
  Classified =>
    /\ IsPrefix(Input.plaintiff.concerns, Result.concerns)
    /\ AppendedConcerns \in
         { << >>, <<EQUITY_CONCERN>>, <<QUALITY_CONCERN>>,
           <<EQUITY_CONCERN, QUALITY_CONCERN>> }
    /\ (Level1Bad \/ Level2Bad) => AppendedConcerns = << >>

C5_Witness ==
  /\ Classified /\ Len(Input.plaintiff.concerns) = 2
  /\ AppendedConcerns = <<EQUITY_CONCERN, QUALITY_CONCERN>>

\* C6 as claimed: bad for type hoa/government/llc, good for isGoodLead, else unknown.
C6_Original ==
  Classified =>
    /\ Input.plaintiff.type \in {"hoa", "government", "llc"} => Level1Bad
    /\ Input.plaintiff.isGoodLead => Result.level1.score = "good"
    /\ (~Input.plaintiff.isGoodLead
          /\ Input.plaintiff.type \notin {"hoa", "government", "llc"})
         => Result.level1.score = "unknown"

\* C6 amended: level 1 is good whenever isGoodLead is true; otherwise bad whenever
\* the type is hoa, government or llc; unknown in every other case.
C6_Level1Table ==
  Classified =>
    Result.level1.score =
      IF Input.plaintiff.isGoodLead THEN "good"
      ELSE IF Input.plaintiff.type \in {"hoa", "government", "llc"} THEN "bad"
      ELSE "unknown"

\* a parsed lender whose name ends in LLC
C6_Witness ==
  /\ Classified
  /\ Input.plaintiff.name = <<Tok("abc", "upper"), Tok("lending", "title"), Tok("llc", "upper")>>
  /\ Input.plaintiff.type = "llc" /\ Input.plaintiff.isGoodLead
  /\ Result.level1.score = "good"

\* C7: when level 1 is not bad, level 2 is good exactly when the defendant's
\* isGoodLead is true and bad exactly when it is false; never unknown/needs_lookup.
C7_Level2Table ==
  (Classified /\ ~Level1Bad) =>
    /\ Result.level2.score = "good" <=> Input.defendant.isGoodLead
    /\ Result.level2.score = "bad" <=> ~Input.defendant.isGoodLead
    /\ Result.level2.score \notin {"unknown", "needs_lookup"}

\* a parsed trust company: type trust, yet a business entity
C7_Witness ==
  /\ Classified /\ ~Level1Bad
  /\ Input.defendant.type = "trust" /\ ~Input.defendant.isGoodLead
  /\ Level2Bad

\* C8 as claimed: good for a good grade or 3..5 beds, bad for a bad grade,
\* needs_lookup when neither datum is supplied.
C8_Original ==
  (Classified /\ ~Level1Bad /\ ~Level2Bad) =>
    /\ (SuppliedGrade \in goodGrades \/ SuppliedBedsGood) => Result.level4.score = "good"
    /\ SuppliedGrade \in badGrades => Result.level4.score = "bad"
    /\ (~IsSome(Ext(externalData, "neighborhoodGrade"))
          /\ ~IsSome(Ext(externalData, "bedCount")))
         => Result.level4.score = "needs_lookup"

\* C8 amended: good for a good grade, or for 3..5 beds unless the grade is bad;
\* bad for a bad grade; needs_lookup when neither datum is supplied.
C8_Level4Table ==
  (Classified /\ ~Level1Bad /\ ~Level2Bad) =>
    /\ (SuppliedGrade \in goodGrades
          \/ (SuppliedBedsGood /\ SuppliedGrade \notin badGrades))
         => Result.level4.score = "good"
    /\ SuppliedGrade \in badGrades => Result.level4.score = "bad"
    /\ (~IsSome(Ext(externalData, "neighborhoodGrade"))
          /\ ~IsSome(Ext(externalData, "bedCount")))
         => Result.level4.score = "needs_lookup"

C8_Witness ==
  /\ Classified /\ ~Level1Bad /\ ~Level2Bad
  /\ SuppliedGrade \in badGrades /\ SuppliedBedsGood
  /\ Result.level4.score = "bad"

\* C9: when levels 1 and 2 are not bad, level 3 is needs_lookup exactly when no
\* purchase date is supplied; with a date it is good exactly when the time owned
\* up to the call is at least 5 years of 365 days and bad otherwise, whatever
\* grade and bed count level 4 was given.
C9_Level3Table ==
  (Classified /\ ~Level1Bad /\ ~Level2Bad) =>
    LET pd == Ext(externalData, "purchaseDate")
    IN Result.level3.score =
         IF ~IsSome(pd) THEN "needs_lookup"
         ELSE IF pd[1].valid /\ calledAt - pd[1].t >= EQUITY_YEARS * DAYS_PER_YEAR
              THEN "good"
         ELSE "bad"

\* owned for exactly five years, with a bad neighbourhood given to level 4
C9_Witness ==
  /\ Classified /\ ~Level1Bad /\ ~Level2Bad
  /\ IsSome(Ext(externalData, "purchaseDate"))
  /\ Ext(externalData, "purchaseDate")[1].valid
  /\ calledAt - Ext(externalData, "purchaseDate")[1].t = EQUITY_YEARS * DAYS_PER_YEAR
  /\ Result.level3.score = "good"
  /\ Result.level4.score = "bad"

\* C10 as claimed: with overallScore review, the concerns hold one concern for
\* each of levels 3 and 4 that is not good.
C10_Original ==
  (Classified /\ Result.overallScore = "review") =>
    /\ Result.level3.score # "good" =>
         \E i \in 1..Len(AppendedConcerns) : AppendedConcerns[i] = EQUITY_CONCERN
    /\ Result.level4.score # "good" =>
         \E i \in 1..Len(AppendedConcerns) : AppendedConcerns[i] = QUALITY_CONCERN

\* C10 amended: with overallScore review and no level unknown or needs_lookup,
\* the concerns added are exactly one concern for each of levels 3 and 4 that is
\* not good; with a level unknown or needs_lookup none is added.
C10_ReviewConcerns ==
  (Classified /\ Result.overallScore = "review") =>
    AppendedConcerns =
      IF LevelScores \cap {"unknown", "needs_lookup"} # {} THEN << >>
      ELSE (IF Result.level3.score # "good" THEN <<EQUITY_CONCERN>> ELSE << >>)
           \o (IF Result.level4.score # "good" THEN <<QUALITY_CONCERN>> ELSE << >>)

C10_Witness ==
  /\ Classified /\ Result.overallScore = "review"
  /\ Result.level3.score = "good" /\ Result.level4.score = "bad"
  /\ AppendedConcerns = <<QUALITY_CONCERN>>

(***************************************************************************)
(* Properties of formatLeadsForSlack                                       *)
(***************************************************************************)
Range(seq) == {seq[i] : i \in 1..Len(seq)}
Reported == report # None
Blocks == report[1].blocks
LeadTextOf(lead) ==
  sanitizeSlackText(IF lead.classification.overallScore = "bad"
                    THEN formatFilteredLeadForSlack(lead)
                    ELSE formatLeadForSlack(lead))

\* C1: whatever the leads, at most 50 blocks are returned, every section text
\* is at most 3000 characters long and every header text at most 150.
C1_SlackLimits ==
  Reported =>
    /\ Len(Blocks) <= BLOCKS_PER_MESSAGE
    /\ \A i \in 1..Len(Blocks) :
         /\ Blocks[i].type = "section" => StrLen(Blocks[i].text) <= SECTION_TEXT
         /\ Blocks[i].type = "header" => StrLen(Blocks[i].text) <= HEADER_TEXT

\* more than 50 blocks were assembled, among them a lead longer than a section
C1_Witness ==
  /\ Reported /\ report[1].warned /\ Len(Blocks) = BLOCKS_PER_MESSAGE
  /\ \E i \in 1..Len(leads) : StrLen(LeadTextOf(leads[i])) > SECTION_TEXT
  /\ \E i \in 1..Len(Blocks) :
       Blocks[i].type = "section" /\ StrLen(Blocks[i].text) = SECTION_TEXT

\* Array.prototype.join of many strings
RECURSIVE JoinAll(_, _)
JoinAll(ts, sep) ==
  IF ts = << >> THEN Empty
  ELSE IF Len(ts) = 1 THEN ts[1]
  ELSE LET m == Len(ts) \div 2
       IN Cat(Cat(JoinAll(SubSeq(ts, 1, m), sep), sep),
              JoinAll(SubSeq(ts, m + 1, Len(ts)), sep))

\* p is the beginning of t / the end of t
StartsWith(t, p) ==
  \/ p = Empty
  \/ /\ Len(p) <= Len(t)
     /\ SubSeq(t, 1, Len(p) - 1) = SubSeq(p, 1, Len(p) - 1)
     /\ t[Len(p)].c = p[Len(p)].c /\ t[Len(p)].tag = p[Len(p)].tag
     /\ p[Len(p)].n <= t[Len(p)].n
EndsWith(t, p) ==
  \/ p = Empty
  \/ /\ Len(p) <= Len(t)
     /\ SubSeq(t, Len(t) - Len(p) + 2, Len(t)) = Tail(p)
     /\ t[Len(t) - Len(p) + 1].c = p[1].c /\ t[Len(t) - Len(p) + 1].tag = p[1].tag
     /\ p[1].n <= t[Len(t) - Len(p) + 1].n

\* the positions of the section headings: the section blocks behind a divider
HeadingIndices ==
  SelectSeq([i \in 1..Len(Blocks) |-> i],
            LAMBDA i : i > 2 /\ Blocks[i].type = "section" /\ Blocks[i - 1].type = "divider")

\* the blocks that hold leads: the other section blocks behind the summary
LeadBlockIndices ==
  {i \in 3..Len(Blocks) : Blocks[i].type = "section" /\ Blocks[i - 1].type # "divider"}

\* the groups that have a section, in the order of the report
GroupSections ==
  SelectSeq(<<[ls |-> groupLeadsByScore(leads).good, separator |-> NL(2)],
              [ls |-> groupLeadsByScore(leads).review, separator |-> NL(2)],
              [ls |-> groupLeadsByScore(leads).bad, separator |-> NL(1)]>>,
            LAMBDA g : g.ls # << >>)

\* the texts of the lead blocks of the j-th section of the report
SectionTexts(j) ==
  LET first == HeadingIndices[j] + 1
      last == IF j < Len(HeadingIndices) THEN HeadingIndices[j + 1] - 2
              ELSE IF Blocks[Len(Blocks)].type = "divider" THEN Len(Blocks) - 1
              ELSE Len(Blocks)
  IN [i \in 1..(last - first + 1) |-> Blocks[first + i - 1].text]

\* a lead's text as a block shows it when texts over 3000 characters are cut
\* to 2997 characters and '...'
CutText(text) == IF StrLen(text) <= 3000 THEN text ELSE Cat(Slice(text, 2997), W(3))
CutLeadText(lead) == CutText(LeadTextOf(lead))

LeadTexts(ls) == [i \in 1..Len(ls) |-> LeadTextOf(ls[i])]
CutLeadTexts(ls) == [i \in 1..Len(ls) |-> CutLeadText(ls[i])]

\* C19 as stated: packing never shortens a lead's text.  Every lead block of
\* the report begins and ends with the complete sanitized text of a lead, and
\* when no block was dropped the lead blocks of a section, joined, are the
\* complete sanitized texts of the section's leads, joined.
C19_Original ==
  Reported /\ leads # << >> =>
    /\ LET texts == {LeadTextOf(lead) : lead \in Range(leads)}
       IN \A i \in LeadBlockIndices :
            /\ \E text \in texts : StartsWith(Blocks[i].text, text)
            /\ \E text \in texts : EndsWith(Blocks[i].text, text)
    /\ ~report[1].warned =>
         /\ Len(HeadingIndices) = Len(GroupSections)
         /\ \A j \in 1..Len(GroupSections) :
              JoinAll(SectionTexts(j), GroupSections[j].separator)
                = JoinAll(LeadTexts(GroupSections[j].ls), GroupSections[j].separator)

\* C19: packing keeps whole every lead text of at most 3000 characters; a
\* longer one is cut to its first 2997 characters and '...'.  Every lead block
\* of the report begins and ends with such a text of a lead, and when no
\* block was dropped the lead blocks of a section, joined, are these texts of
\* the section's leads, joined in order.
C19_LeadTextsKept ==
  Reported /\ leads # << >> =>
    /\ LET texts == {CutLeadText(lead) : lead \in Range(leads)}
       IN \A i \in LeadBlockIndices :
            /\ \E text \in texts : StartsWith(Blocks[i].text, text)
            /\ \E text \in texts : EndsWith(Blocks[i].text, text)
    /\ ~report[1].warned =>
         /\ Len(HeadingIndices) = Len(GroupSections)
         /\ \A j \in 1..Len(GroupSections) :
              JoinAll(SectionTexts(j), GroupSections[j].separator)
                = JoinAll(CutLeadTexts(GroupSections[j].ls), GroupSections[j].separator)
\* several leads share a block, several blocks were needed, and a lead of
\* more than 3000 characters is among them
C19_Witness ==
  /\ Reported /\ leads # << >> /\ ~report[1].warned
  /\ \E j \in 1..Len(GroupSections) :
       /\ Len(SectionTexts(j)) > 1
       /\ Len(SectionTexts(j)) < Len(GroupSections[j].ls)
  /\ \E lead \in Range(leads) : StrLen(LeadTextOf(lead)) > 3000
  /\ \E lead \in Range(leads) : StrLen(LeadTextOf(lead)) <= 3000

\* the blocks formatLeadsForSlack assembles for the leads of the state; only
\* the header depends on the date
Assembled == AssembleBlocks(leads, groupLeadsByScore(leads), X(8, "num"))

Parsed == parsed # None
Handed == Parsed /\ classification # None

\* every ParsedAddress the state holds
Candidates ==
  (IF scored # None THEN {scored[1]} ELSE {})
  \cup (IF Parsed THEN Range(parsed[1].allAddresses) \cup Range(parsed[1].mailingAddress)
        ELSE {})

MatchesNonAddressPhrase(c) ==
  \E p \in NON_ADDRESS_PATTERNS : HasPhrase(c.raw, p) \/ HasPhrase(c.cleaned, p)

\* the five positive signals of a candidate
Signals(c) ==
  [number |-> HasLeadingNumber(c.cleaned),
   street |-> HasWord(c.cleaned, STREET_TYPE_REGEX),
   city |-> HasWord(c.cleaned, CITY_REGEX),
   state |-> HasWord(c.cleaned, STATE_REGEX),
   zip |-> HasZip(c.cleaned)]

Factor(signal) == IF signal THEN 1 ELSE 0

\* C11: a candidate that matches a non-address phrase has score 0, quality low,
\* isLikelyAddress false and the single reason matched_non_address_phrase,
\* whatever positive signals it holds.
C11_NonAddressRejected ==
  \A c \in Candidates :
     MatchesNonAddressPhrase(c) =>
       /\ c.score = 0
       /\ c.quality = "low"
       /\ c.isLikelyAddress = FALSE
       /\ c.reasons = <<"matched_non_address_phrase">>
C11_Witness ==
  \E c \in Candidates :
     /\ MatchesNonAddressPhrase(c)
     /\ \A f \in DOMAIN Signals(c) : Signals(c)[f]
     /\ c.score = 0

\* C12: without a non-address phrase the score is 40 for a leading street
\* number plus 30 for a street type plus 10 each for city, state and ZIP; it
\* lies in 0..100, and a candidate with more signals never scores lower.
C12_ScoreIsSumOfSignals ==
  /\ \A c \in Candidates :
       ~MatchesNonAddressPhrase(c) =>
         /\ c.score = 40 * Factor(Signals(c).number) + 30 * Factor(Signals(c).street)
                      + 10 * Factor(Signals(c).city) + 10 * Factor(Signals(c).state)
                      + 10 * Factor(Signals(c).zip)
         /\ c.score \in 0..100
  /\ \A c, d \in Candidates :
       /\ ~MatchesNonAddressPhrase(c)
       /\ ~MatchesNonAddressPhrase(d)
       /\ \A f \in DOMAIN Signals(c) : Signals(c)[f] => Signals(d)[f]
       => c.score <= d.score
C12_Witness ==
  \E c, d \in Candidates :
     /\ ~MatchesNonAddressPhrase(c) /\ ~MatchesNonAddressPhrase(d)
     /\ \A f \in DOMAIN Signals(c) : Signals(c)[f] => Signals(d)[f]
     /\ c.score = 70 /\ d.score = 100

\* C13: quality is high iff score >= 80, medium iff 50 <= score < 80, low iff
\* score < 50, and isLikelyAddress is true iff score >= 50, rejected or not.
C13_QualityFromScore ==
  \A c \in Candidates :
     /\ c.quality = "high" <=> c.score >= 80
     /\ c.quality = "medium" <=> (c.score >= 50 /\ c.score < 80)
     /\ c.quality = "low" <=> c.score < 50
     /\ c.isLikelyAddress <=> c.score >= 50
C13_Witness ==
  \E c \in Candidates : c.score = 80 /\ c.quality = "high" /\ c.isLikelyAddress

\* b is the member of A with the highest score, the first one on ties
IsFirstBest(b, A) ==
  \E i \in 1..Len(A) :
     /\ A[i] = b
     /\ \A j \in 1..Len(A) : A[j].score <= b.score
     /\ \A j \in 1..(i - 1) : A[j].score < b.score

\* C14: getBestAddress gives null for the empty list, and otherwise a member
\* whose score no other member exceeds, the first such member on ties.
C14_BestAddress ==
  Parsed =>
    /\ parsed[1].allAddresses = << >> => parsed[1].propertyAddress = None
    /\ parsed[1].allAddresses # << >> =>
         /\ parsed[1].propertyAddress # None
         /\ IsFirstBest(parsed[1].propertyAddress[1], parsed[1].allAddresses)
C14_Witness ==
  /\ Parsed
  /\ Len(parsed[1].allAddresses) >= 2
  /\ parsed[1].allAddresses[1].score = parsed[1].allAddresses[2].score
  /\ parsed[1].propertyAddress = Some(parsed[1].allAddresses[1])
  /\ parsed[1].allAddresses[1] # parsed[1].allAddresses[2]

\* the entries of the ignore list handed to processPdf
IgnoreEntries == IF ignoreAddresses = None THEN {} ELSE Range(ignoreAddresses[1])

\* the members of A whose key is none of the keys, in A's order
WithoutKeys(A, keys) == SelectSeq(A, LAMBDA c : ignoreKey(c.cleaned) \notin keys)

\* C15 as stated: the filtered list is the order-preserving sublist of A that
\* drops exactly the candidates whose whitespace-normalized, lower-cased
\* cleaned form equals the whitespace-normalized, lower-cased form of an entry
\* of I; with I empty or absent the result is A.
C15_Original ==
  Handed =>
    parseResult[1].allAddresses
      = WithoutKeys(parsed[1].allAddresses, {ignoreKey(entry) : entry \in IgnoreEntries})

\* C15: the filtered list is the order-preserving sublist of A that drops
\* exactly the candidates whose whitespace-normalized, lower-cased cleaned form
\* equals the form of an entry of I after the entry was cleaned like a
\* candidate (white-space runs collapsed, every comma followed by one space
\* and preceded by none, trimmed), whitespace-normalized and lower-cased; with
\* I empty or absent the result is A.
C15_IgnoredDropped ==
  Handed =>
    parseResult[1].allAddresses
      = WithoutKeys(parsed[1].allAddresses,
                    {ignoreKey(cleanForAddressExtraction(entry)) : entry \in IgnoreEntries})
C15_Witness ==
  /\ Handed
  /\ parseResult[1].allAddresses # << >>
  /\ \E c \in Range(parsed[1].allAddresses) :
       /\ c \notin Range(parseResult[1].allAddresses)
       /\ c.cleaned \notin IgnoreEntries
       /\ toLowerCase(c.cleaned) \in IgnoreEntries

\* C16 as stated: in the value parseLisPendens returns and in the copy with
\* ignore-filtered allAddresses that processPdf hands to the classifier,
\* propertyAddress is null iff allAddresses is empty and otherwise is the
\* highest-scoring member of allAddresses, the first one on ties.
C16_Original ==
  Handed =>
    \A result \in {parsed[1], parseResult[1]} :
       /\ result.propertyAddress = None <=> result.allAddresses = << >>
       /\ result.allAddresses # << >> =>
            /\ result.propertyAddress # None
            /\ IsFirstBest(result.propertyAddress[1], result.allAddresses)

PlaintiffName == parsed[1].rawText.plaintiffName
MatchesLender(name) == SomeMatch(GOOD_PLAINTIFF_PATTERNS, name)
MatchesBadPlaintiff(name) == SomeMatch(BAD_PLAINTIFF_PATTERNS, name)

\* C17: isGoodPlaintiff(name) and the isGoodLead of the plaintiff record of
\* parseLisPendens are true exactly when the name matches a good pattern and
\* no bad pattern; a bad pattern makes both false whatever the type.
C17_GoodPlaintiff ==
  Parsed =>
    /\ parsed[1].plaintiff.isGoodLead
         = (MatchesLender(PlaintiffName) /\ ~MatchesBadPlaintiff(PlaintiffName))
    /\ isGoodPlaintiff(PlaintiffName) = parsed[1].plaintiff.isGoodLead
    /\ MatchesBadPlaintiff(PlaintiffName) =>
         ~parsed[1].plaintiff.isGoodLead /\ ~isGoodPlaintiff(PlaintiffName)
C17_Witness ==
  /\ Parsed
  /\ MatchesLender(PlaintiffName)
  /\ MatchesBadPlaintiff(PlaintiffName)
  /\ parsed[1].plaintiff.type = "bank"
  /\ ~parsed[1].plaintiff.isGoodLead

\* the parse results of two documents in a row
BothParsed == parsed # None /\ previous # None

\* C18 as stated: two plaintiff records of the same type have the same
\* isGoodLead, and so have two defendant records of the same type.
C18_Original ==
  BothParsed =>
    /\ parsed[1].plaintiff.type = previous[1].plaintiff.type
         => parsed[1].plaintiff.isGoodLead = previous[1].plaintiff.isGoodLead
    /\ parsed[1].defendant.type = previous[1].defendant.type
         => parsed[1].defendant.isGoodLead = previous[1].defendant.isGoodLead

\* C18: isGoodLead is re-derivable from the name's pattern matches; the type
\* settles it only for plaintiff types hoa and government (never good), for
\* defendant type individual (always good) and for defendant types llc and
\* unknown (never good).
C18_GoodLeadFromPatterns ==
  BothParsed =>
    \A result \in {parsed[1], previous[1]} :
       /\ result.plaintiff.isGoodLead
            = (MatchesLender(result.plaintiff.name) /\ ~MatchesBadPlaintiff(result.plaintiff.name))
       /\ result.defendant.isGoodLead
            = ~SomeMatch(BAD_DEFENDANT_PATTERNS, result.defendant.name)
       /\ result.plaintiff.type \in {"hoa", "government"} => ~result.plaintiff.isGoodLead
       /\ result.defendant.type = "individual" => result.defendant.isGoodLead
       /\ result.defendant.type \in {"llc", "unknown"} => ~result.defendant.isGoodLead
C18_Witness ==
  /\ BothParsed
  /\ parsed[1].plaintiff.type = previous[1].plaintiff.type
  /\ parsed[1].plaintiff.isGoodLead # previous[1].plaintiff.isGoodLead
  /\ parsed[1].defendant.type = previous[1].defendant.type
  /\ parsed[1].defendant.isGoodLead # previous[1].defendant.isGoodLead

(***************************************************************************)
(* Properties of the text functions                                        *)
(***************************************************************************)
CalledFn(fn) == normalized # None /\ normalized[1].fn = fn
TextIn == normalized[1].input
TextOut == normalized[1].output

\* how many characters of class c a string of the formatter holds
CountOf(t, c) == StrLen(SelectSeq(t, LAMBDA r : r.c = c))

\* the part of a formatter string from its first to its last visible character
Inside(t) ==
  LET visible == {i \in 1..Len(t) : t[i].c = "x"}
  IN IF visible = {} THEN << >>
     ELSE SubSeq(t, CHOOSE i \in visible : \A j \in visible : i <= j,
                    CHOOSE i \in visible : \A j \in visible : i >= j)

\* C21 as stated: the output of sanitizeSlackText holds no control character
\* but newline and tab and no degree sign, and the newlines and tabs inside
\* the text are kept.
C21_Original ==
  CalledFn("sanitizeSlackText") =>
    /\ \A i \in 1..Len(TextOut) : TextOut[i].c \notin {"ctl", "cr", "deg"}
    /\ CountOf(TextOut, "nl") = CountOf(Inside(TextIn), "nl")
    /\ CountOf(TextOut, "tab") = CountOf(Inside(TextIn), "tab")

IsWhiteSpace(a) == a.k = "s"

\* C22: normalizeWhitespace is idempotent, and its result holds no carriage
\* return or line feed, no two white-space characters in a row and no white
\* space at either end.
C22_NormalizedText ==
  CalledFn("normalizeWhitespace") =>
    /\ normalizeWhitespace(TextOut) = TextOut
    /\ \A i \in 1..Len(TextOut) : TextOut[i] \notin {Return, Newline}
    /\ \A i \in 1..(Len(TextOut) - 1) : ~(IsWhiteSpace(TextOut[i]) /\ IsWhiteSpace(TextOut[i + 1]))
    /\ TextOut # << >> => ~IsWhiteSpace(TextOut[1]) /\ ~IsWhiteSpace(TextOut[Len(TextOut)])
C22_Witness ==
  /\ CalledFn("normalizeWhitespace")
  /\ \E i \in 1..Len(TextIn) : TextIn[i] \in {Return, Newline}
  /\ \E i \in 2..(Len(TextIn) - 2) : IsWhiteSpace(TextIn[i]) /\ IsWhiteSpace(TextIn[i + 1])
  /\ Len(TextOut) = 3 /\ TextOut[2] = Space

\* the white-space runs inside a document text, each by its number of line
\* feeds and by whether a lower-case letter stands on either side of it
BreaksOf(t) ==
  LET starts == {i \in 2..Len(t) : IsWhiteSpace(t[i]) /\ ~IsWhiteSpace(t[i - 1])}
      EndOf(i) == i + LeadingRun(Drop(t, i - 1), WhiteSpace) - 1
      IsLower(a) == a.k = "w" /\ a.cap = "lower"
  IN {[at |-> i,
       feeds |-> Cardinality({j \in i..EndOf(i) : t[j] = Newline}),
       betweenLower |-> IsLower(t[i - 1]) /\ IsLower(t[EndOf(i) + 1])] :
        i \in {k \in starts : EndOf(k) < Len(t)}}

ParagraphBreaksIn(t) == Cardinality({b \in BreaksOf(t) : b.feeds >= 2})
SingleBreaksIn(t) == Cardinality({b \in BreaksOf(t) : b.feeds = 1})
JoinableBreaksIn(t) == Cardinality({b \in BreaksOf(t) : b.feeds = 1 /\ b.betweenLower})

\* C23 as stated: besides the trimmed ends, normalizeForLegalParsing removes
\* only single line breaks between two lower-case letters; every paragraph
\* break of the input is one paragraph break of the output and every other
\* line break survives.
C23_Original ==
  CalledFn("normalizeForLegalParsing") =>
    LET text == TrimWhiteSpace(CanonicalLineBreaks(TextIn))
    IN /\ ParagraphBreaksIn(TextOut) = ParagraphBreaksIn(text)
       /\ SingleBreaksIn(TextOut) >= SingleBreaksIn(text) - JoinableBreaksIn(text)


(***************************************************************************)
(* Properties of lead creation                                             *)
(***************************************************************************)
Arguments == args[1]
\* the results that carry lookup links
WithLinks == {i \in 1..Len(created) : IsSome(created[i].lookupLinks)}
LinksOf(i) == created[i].lookupLinks[1]
ArgumentAddress == Arguments.parseResult.propertyAddress
EncodedDefendant ==
  encodeURIComponent(nameString(Arguments.parseResult.defendant.name))
\* the classification of the arguments as they were built, no link generated
Unlinked ==
  classifyLead(ReadParseResult(Arguments.before, Arguments.parseResult),
               ReadExternalData(Arguments.before, Arguments.externalData), now)
ScoresOf(c) ==
  <<c.level1.score, c.level2.score, c.level3.score, c.level4.score, c.overallScore>>

\* C24: the zillow and googleMaps links are built from the cleaned address
\* exactly when the address is there with quality high or medium, else from the
\* defendant name; the pva link is always built from the defendant name; the
\* scores are those of the classification alone.
C24_Original ==
  \A i \in WithLinks :
     LET fromAddress == /\ IsSome(ArgumentAddress)
                        /\ ArgumentAddress[1].quality \in {"high", "medium"}
         term == IF fromAddress THEN encodeURIComponent(ArgumentAddress[1].cleaned)
                 ELSE EncodedDefendant
     IN /\ LinksOf(i).pva = Link("fayettepva", "?owner=", <<EncodedDefendant>>)
        /\ LinksOf(i).zillow =
             Link("zillow", IF fromAddress THEN "/_rb/" ELSE "/?searchQueryState=",
                  <<term>>)
        /\ LinksOf(i).googleMaps = Link("google.com/maps", "/", <<term>>)
        /\ ScoresOf(created[i].classification) = ScoresOf(Unlinked)

ConcernsOf(i) == created[i].classification.concerns
ArgumentConcerns == Arguments.parseResult.plaintiff.concerns

\* C25: classifyLead and createClassifiedLead leave their arguments as they
\* were: every array and object the caller built holds what it held, also when
\* level-3/4 concerns are appended to a result; the concerns array of a result
\* is neither the plaintiff's array nor the array of another result.
C25_ArgumentsUntouched ==
  args # None =>
    /\ \A r \in 1..Len(Arguments.before) : heap[r] = Arguments.before[r]
    /\ \A i \in 1..Len(created) :
         /\ ConcernsOf(i) # ArgumentConcerns
         /\ \A j \in 1..Len(created) : i # j => ConcernsOf(i) # ConcernsOf(j)

\* two results on a plaintiff with concerns, one of them with a concern appended
C25_Witness ==
  /\ args # None
  /\ Len(created) = MaxCalls
  /\ heap[ArgumentConcerns].items # << >>
  /\ \E i, j \in 1..Len(created) :
       /\ created[i].fn = "classifyLead"
       /\ created[j].fn = "createClassifiedLead"
       /\ Len(heap[ConcernsOf(i)].items) > Len(heap[ArgumentConcerns].items)
       /\ IsSome(Arguments.externalData)


(***************************************************************************)
(* Properties of addLeadBlocks                                             *)
(***************************************************************************)
\* how many leads each block holds when texts of these lengths are packed: the
\* running buffer holds `count` leads and is `length` characters long, and a
\* block ends where the next text and the separator would take it past 3000 - 100
RECURSIVE Packed(_, _, _, _)
Packed(lengths, separatorLength, count, length) ==
  IF lengths = << >> THEN (IF count > 0 THEN <<count>> ELSE << >>)
  ELSE LET appended == IF count > 0 THEN length + separatorLength + Head(lengths)
                       ELSE Head(lengths)
       IN IF appended > 3000 - 100
          THEN (IF count > 0 THEN <<count>> ELSE << >>)
               \o Packed(Tail(lengths), separatorLength, 1, Head(lengths))
          ELSE Packed(Tail(lengths), separatorLength, count + 1, appended)

RECURSIVE SumOf(_)
SumOf(sizes) == IF sizes = << >> THEN 0 ELSE Head(sizes) + SumOf(Tail(sizes))

\* the texts of the leads the b-th block of a section holds
HeldBy(texts, sizes, b) ==
  SubSeq(texts, SumOf(SubSeq(sizes, 1, b - 1)) + 1, SumOf(SubSeq(sizes, 1, b)))

\* the section's blocks are the texts packed that way
PackedAs(blocks, texts, sizes, separator) ==
  /\ Len(blocks) = Len(sizes)
  /\ \A b \in 1..Len(sizes) :
       /\ blocks[b] = CutText(JoinAll(HeldBy(texts, sizes, b), separator))
       /\ StrLen(blocks[b]) > 0
       /\ sizes[b] >= 2 => StrLen(blocks[b]) <= 3000 - 100
       /\ StrLen(blocks[b]) > 3000 - 100 => sizes[b] = 1

\* C26: addLeadBlocks starts a new block exactly when the next lead's text,
\* appended with the separator, would take the running buffer past 3000 - 100
\* characters; so a block holding two or more leads is at most 2900 characters
\* long, only a block holding one lead can be longer, and no block is empty.
C26_BlocksPacked ==
  Reported /\ leads # << >> /\ ~report[1].warned =>
    /\ Len(HeadingIndices) = Len(GroupSections)
    /\ \A j \in 1..Len(GroupSections) :
         LET texts == LeadTexts(GroupSections[j].ls)
             sizes == Packed([i \in 1..Len(texts) |-> StrLen(texts[i])],
                             StrLen(GroupSections[j].separator), 0, 0)
         IN PackedAs(SectionTexts(j), texts, sizes, GroupSections[j].separator)

\* a section of several blocks: one holds several leads and ends because the
\* next lead would not fit, one holds a single lead longer than 2900
C26_Witness ==
  /\ Reported /\ leads # << >> /\ ~report[1].warned
  /\ \E j \in 1..Len(GroupSections) :
       LET blocks == SectionTexts(j)
       IN /\ Len(blocks) > 2
          /\ Len(blocks) < Len(GroupSections[j].ls)
          /\ \E b \in 1..Len(blocks) : StrLen(blocks[b]) > 3000 - 100
          /\ \E b \in 1..(Len(blocks) - 1) :
               /\ StrLen(blocks[b]) <= 3000 - 100
               /\ StrLen(blocks[b]) > StrLen(LeadTextOf(GroupSections[j].ls[1]))


(***************************************************************************)
(* Properties of the report as a whole                                     *)
(***************************************************************************)
Scoring(score) == SelectSeq(leads, LAMBDA lead : lead.classification.overallScore = score)

\* the headings of the groups that have leads, good, review, bad
ExpectedHeadings ==
  SelectSeq(<<[n |-> Len(Scoring("good")), emoji |-> 18, words |-> <<5, 5>>],
              [n |-> Len(Scoring("review")), emoji |-> 6, words |-> <<6, 6>>],
              [n |-> Len(Scoring("bad")), emoji |-> 3, words |-> <<9, 3>>]>>,
            LAMBDA h : h.n > 0)

\* 'Lis Pendens Report: g good, r review, b filtered'
FallbackCounts(g, r, b) ==
  CatAll(<<Words(<<3, 7, 7>>), SP(1), NumText(g), SP(1), W(5), SP(1), NumText(r),
           SP(1), W(7), SP(1), NumText(b), SP(1), W(8)>>)

\* each text is in one block: the blocks hold sizes[1], sizes[2], ... texts in
\* order, every block at least one, all of them together every text
EachInOneBlock(blocks, texts, sizes, separator) ==
  /\ Len(blocks) = Len(sizes)
  /\ SumOf(sizes) = Len(texts)
  /\ \A b \in 1..Len(sizes) :
       /\ sizes[b] >= 1
       /\ blocks[b] = CutText(JoinAll(HeldBy(texts, sizes, b), separator))

\* C27: when no block is dropped at the cap, the report is the header, the
\* summary and a divider, then for good, review and bad in this order, and
\* only for a group that has leads, the group's heading and the blocks holding
\* the group's leads in input order, each lead in exactly one block; the three
\* counts of the fallback text add up to the number of leads.
C27_EveryLeadOnce ==
  Reported /\ leads # << >> /\ ~report[1].warned =>
    /\ Blocks[1].type = "header" /\ Blocks[2].type = "section"
    /\ Blocks[3].type = "divider"
    /\ Len(HeadingIndices) = Len(ExpectedHeadings)
    /\ \A j \in 1..Len(ExpectedHeadings) :
         LET h == ExpectedHeadings[j]
             group == Scoring(IF h.emoji = 18 THEN "good"
                              ELSE IF h.emoji = 6 THEN "review" ELSE "bad")
             separator == IF h.emoji = 3 THEN NL(1) ELSE NL(2)
             texts == LeadTexts(group)
             sizes == Packed([i \in 1..Len(texts) |-> StrLen(texts[i])],
                             StrLen(separator), 0, 0)
         IN /\ Blocks[HeadingIndices[j]] = Heading(h.emoji, h.words, h.n)
            /\ EachInOneBlock(SectionTexts(j), texts, sizes, separator)
    /\ Len(Scoring("good")) + Len(Scoring("review")) + Len(Scoring("bad")) = Len(leads)
    /\ report[1].text =
         FallbackCounts(Len(Scoring("good")), Len(Scoring("review")), Len(Scoring("bad")))

\* leads of two groups, both sections there, one of them in several blocks
C27_Witness ==
  /\ Reported /\ leads # << >> /\ ~report[1].warned
  /\ Len(ExpectedHeadings) = 2
  /\ Len(HeadingIndices) = 2
  /\ Scoring("review") # << >> /\ Scoring("good") # << >>
  /\ leads[1].classification.overallScore = "review"
  /\ Len(SectionTexts(1)) > 1


(***************************************************************************)
(* Properties of stopReason                                                *)
(***************************************************************************)
HasStopReason == "stopReason" \in DOMAIN Result

\* C28: stopReason is there exactly when overallScore is bad; it is then
\* 'Level 1: ' and the note of level 1 when level 1 is bad, else 'Level 2: '
\* and the note of level 2, which is bad; a bad overallScore comes with levels
\* 3 and 4 skipped, and an evaluated level 3 or 4 that is bad does not make
\* the overallScore bad.
C28_StopReason ==
  Classified =>
    /\ HasStopReason <=> Result.overallScore = "bad"
    /\ HasStopReason =>
         /\ Level1Bad \/ Level2Bad
         /\ Level1Bad => Result.stopReason = "Level 1: " \o Result.level1.note
         /\ ~Level1Bad => Result.stopReason = "Level 2: " \o Result.level2.note
         /\ Result.level3.score = "unknown" /\ Result.level4.score = "unknown"
         /\ Result.level3.note = Result.level4.note
         /\ Result.level3.note \in {SKIPPED_L1, SKIPPED_L2}
    /\ Result.level3.score = "bad" \/ Result.level4.score = "bad" =>
         Result.overallScore = "review"

\* a classification stopped at level 2 although the external data would have
\* made levels 3 and 4 bad
C28_Witness ==
  /\ Classified
  /\ HasStopReason
  /\ ~Level1Bad /\ Level2Bad
  /\ classifyLevel3(Ext(externalData, "purchaseDate"), calledAt).score = "bad"
  /\ classifyLevel4(Ext(externalData, "neighborhoodGrade"),
                    Ext(externalData, "bedCount")).score = "bad"


(***************************************************************************)
(* Properties of the sentinel names                                        *)
(***************************************************************************)
\* C29 as stated: a party whose name is the sentinel has type unknown and
\* isGoodLead false, and a document with the sentinel defendant does not score
\* good at level 2.
C29_Original ==
  Classified =>
    /\ Input.plaintiff.name = UNKNOWN_PLAINTIFF =>
         Input.plaintiff.type = "unknown" /\ ~Input.plaintiff.isGoodLead
    /\ Input.defendant.name = UNKNOWN_DEFENDANT =>
         /\ Input.defendant.type = "unknown" /\ ~Input.defendant.isGoodLead
         /\ Result.level2.score # "good"


(***************************************************************************)
(* Properties of the shared browser                                        *)
(***************************************************************************)
Scraping(r) == runs[r].pc = "scraping"

\* C30 as stated: no run scrapes on a browser that closeBrowser has closed,
\* and when every run has returned every browser launched is closed.
C30_Original ==
  /\ \A r \in Runs : Scraping(r) => browsers[runs[r].browserInstance[1]] = "open"
  /\ (\A r \in Runs : runs[r].pc = "done") =>
       \A b \in 1..Len(browsers) : browsers[b] = "closed"

====
